---- MODULE Spec2Model ----
(***************************************************************************)
(* A model of the interactive session engine of n8n-nodes-netdevices: the  *)
(* connection dispatcher and the vendor plugins (MikroTik, Palo Alto,      *)
(* Extreme EXOS, Versa FlexVNF, Huawei VRP, Ubiquiti EdgeRouter / UniFi,   *)
(* HP ProCurve).  Every await of a handler is one step of the model: a     *)
(* channel write either succeeds or raises, a channel read returns one of  *)
(* a few device answers or raises.  Strings are TLA+ strings and the       *)
(* string tests of the source (includes, trim, split, replace) are         *)
(* computed on them.                                                       *)
(***************************************************************************)
EXTENDS Integers, Sequences, FiniteSets, TLC

(***************************************************************************)
(* String helpers: the JavaScript string operations the source uses.       *)
(***************************************************************************)

\* s.includes(p)
Includes(s, p) ==
    \E i \in 1..(Len(s) - Len(p) + 1) : SubSeq(s, i, i + Len(p) - 1) = p

UpperChars == "ABCDEFGHIJKLMNOPQRSTUVWXYZ"

LowerChars == "abcdefghijklmnopqrstuvwxyz"

LowerChar(c) ==
    IF \E i \in 1..Len(UpperChars) : SubSeq(UpperChars, i, i) = c
    THEN LET i == CHOOSE k \in 1..Len(UpperChars) : SubSeq(UpperChars, k, k) = c
         IN  SubSeq(LowerChars, i, i)
    ELSE c

RECURSIVE ToLowerCase(_)
\* s.toLowerCase()
ToLowerCase(s) ==
    IF Len(s) = 0 THEN ""
    ELSE LowerChar(SubSeq(s, 1, 1)) \o ToLowerCase(SubSeq(s, 2, Len(s)))

\* /p/i.test(s)
IncludesIgnoreCase(s, p) == Includes(ToLowerCase(s), ToLowerCase(p))

\* the characters JavaScript's \s and trim() treat as white space
IsSpace(c) == c \in {" ", "\n", "\r", "\t"}

RECURSIVE TrimEnd(_)
TrimEnd(s) ==
    IF Len(s) > 0 /\ IsSpace(SubSeq(s, Len(s), Len(s)))
    THEN TrimEnd(SubSeq(s, 1, Len(s) - 1))
    ELSE s

RECURSIVE TrimStart(_)
TrimStart(s) ==
    IF Len(s) > 0 /\ IsSpace(SubSeq(s, 1, 1))
    THEN TrimStart(SubSeq(s, 2, Len(s)))
    ELSE s

\* s.trim()
Trim(s) == TrimStart(TrimEnd(s))

\* lines[lines.length - 1] of s.split('\n'): the text after the last newline
LastLine(s) ==
    LET nl == {i \in 1..Len(s) : SubSeq(s, i, i) = "\n"}
    IN  IF nl = {} THEN s
        ELSE LET last == CHOOSE i \in nl : \A j \in nl : j <= i
             IN  SubSeq(s, last + 1, Len(s))

\* s.replace(/[chars]\s*$/, ''): drop one terminator of `chars` together with
\* the white space after it, when the string ends that way
StripTerminator(s, chars) ==
    LET t == TrimEnd(s)
    IN  IF Len(t) > 0 /\ SubSeq(t, Len(t), Len(t)) \in chars
        THEN SubSeq(t, 1, Len(t) - 1)
        ELSE s

\* the places where p starts in s
Positions(s, p) == {i \in 1..(Len(s) - Len(p) + 1) : SubSeq(s, i, i + Len(p) - 1) = p}

SetMin(S) == CHOOSE x \in S : \A y \in S : x <= y

SetMax(S) == CHOOSE x \in S : \A y \in S : y <= x

RECURSIVE RemoveAll(_, _)
\* s.replace(/p/g, '') for a literal p: the matches taken from the left, each
\* search going on after the match before
RemoveAll(s, p) ==
    IF Positions(s, p) = {} THEN s
    ELSE LET k == SetMin(Positions(s, p))
         IN  SubSeq(s, 1, k - 1) \o RemoveAll(SubSeq(s, k + Len(p), Len(s)), p)

IsDigit(c) == c \in {"0", "1", "2", "3", "4", "5", "6", "7", "8", "9"}

(***************************************************************************)
(* Bounds of the model.                                                    *)
(***************************************************************************)

\* longest list of configuration commands handed to sendConfig
MaxCmds == 2

(***************************************************************************)
(* State.                                                                  *)
(***************************************************************************)
VARIABLES
    vendor,        \* the class of the session under test
    isConnected,   \* BaseConnection.isConnected
    currentChannel,\* TRUE when BaseConnection.currentChannel is set
    fastMode,      \* BaseConnection.fastMode
    flags,         \* inConfigMode, inEnableMode, inOperationalMode, inShellMode, inTelnetSession
    basePrompt,    \* BaseConnection.basePrompt
    closed,        \* calls of the inherited disconnect made by the operation
    op,            \* the operation the caller started, "idle" between operations
    pc,            \* the program point the operation is at
    stack,         \* the callers of the method in progress: where to return, where to catch
    args,          \* the argument of the operation: its command or list of commands
    cmds,          \* the commands still to send
    attempts,      \* the loop counter of enterCliMode
    output,        \* the chunk last read
    error,         \* the error last caught
    chan,          \* the channel traffic of the operation: writes and reads in order
    par,           \* the two tasks of a Promise.all
    ret,           \* what the last call handed to its caller
    conn           \* what createConnection handed to its caller

sessionVars == <<vendor, isConnected, currentChannel, fastMode, flags, basePrompt>>

opVars == <<closed, op, pc, stack, args, cmds, attempts, output, error, chan, par, ret>>

vars == <<vendor, isConnected, currentChannel, fastMode, flags, basePrompt,
          closed, op, pc, stack, args, cmds, attempts, output, error, chan, par, ret,
          conn>>

NoFlags ==
    [inConfigMode |-> FALSE, inEnableMode |-> FALSE, inOperationalMode |-> FALSE,
     inShellMode |-> FALSE, inTelnetSession |-> FALSE]

NoRet == [kind |-> "none"]

NoPar == [width |-> "idle", paging |-> "idle"]

NoConn == [kind |-> "none"]

\* the session fields of a freshly constructed session (the constructors of
\* BaseConnection and of its subclasses open nothing)
NewSession(v, fast) ==
    /\ vendor = v
    /\ isConnected = FALSE
    /\ currentChannel = FALSE
    /\ fastMode = fast
    /\ flags = NoFlags
    /\ basePrompt = ""

IdleOp ==
    /\ closed = 0
    /\ op = "idle"
    /\ pc = "idle"
    /\ stack = <<>>
    /\ args = <<>>
    /\ cmds = <<>>
    /\ attempts = 0
    /\ output = ""
    /\ error = ""
    /\ chan = <<>>
    /\ par = NoPar
    /\ ret = NoRet

(***************************************************************************)
(* The dispatcher: ConnectionDispatcher.createConnection.                  *)
(***************************************************************************)

\* Object.keys(CONNECTION_CLASS_MAPPING), in insertion order
SupportedKeys ==
    << "cisco_ios", "cisco_ios_xe", "cisco_ios_xr", "cisco_nxos", "cisco_asa",
       "cisco_sg300", "juniper_junos", "juniper_srx", "paloalto_panos", "ciena_saos",
       "fortinet_fortios", "ericsson_ipos", "ericsson_mltn", "linux", "generic",
       "vyos", "huawei_vrp", "arista_eos", "hp_procurve", "aruba_os", "aruba_aoscx",
       "ubiquiti_edgeswitch", "ubiquiti_edgerouter", "ubiquiti_unifi",
       "mikrotik_routeros", "mikrotik_switchos", "extreme_exos", "dell_os10",
       "versa_flexvnf" >>

SupportedTags == {SupportedKeys[i] : i \in 1..Len(SupportedKeys)}

\* the class each key of CONNECTION_CLASS_MAPPING maps to
ClassOfKey ==
    [k \in SupportedTags |->
        CASE k \in {"cisco_ios", "cisco_ios_xe", "cisco_nxos", "cisco_asa"} -> "CiscoConnection"
          [] k = "cisco_ios_xr" -> "CiscoIOSXRConnection"
          [] k = "cisco_sg300" -> "CiscoSG300Connection"
          [] k \in {"juniper_junos", "juniper_srx"} -> "JuniperConnection"
          [] k = "paloalto_panos" -> "PaloAltoConnection"
          [] k = "ciena_saos" -> "CienaSaosConnection"
          [] k = "fortinet_fortios" -> "FortinetConnection"
          [] k = "ericsson_ipos" -> "EricssonConnection"
          [] k = "ericsson_mltn" -> "EricssonMinilinkConnection"
          [] k = "linux" -> "LinuxConnection"
          [] k = "generic" -> "BaseConnection"
          [] k = "vyos" -> "VyosConnection"
          [] k = "huawei_vrp" -> "HuaweiConnection"
          [] k = "arista_eos" -> "AristaConnection"
          [] k = "hp_procurve" -> "HPProcurveConnection"
          [] k = "aruba_os" -> "ArubaOsConnection"
          [] k = "aruba_aoscx" -> "ArubaAosCxConnection"
          [] k = "ubiquiti_edgeswitch" -> "UbiquitiEdgeSwitchConnection"
          [] k = "ubiquiti_edgerouter" -> "UbiquitiEdgeRouterConnection"
          [] k = "ubiquiti_unifi" -> "UbiquitiUnifiSwitchConnection"
          [] k = "mikrotik_routeros" -> "MikrotikRouterOsConnection"
          [] k = "mikrotik_switchos" -> "MikrotikSwitchOsConnection"
          [] k = "extreme_exos" -> "ExtremeExosConnection"
          [] k = "dell_os10" -> "DellOS10Connection"
          [] k = "versa_flexvnf" -> "VersaFlexVNFConnection"]

\* CONNECTION_CLASS_MAPPING is a plain object literal, so a property read that
\* finds no own key continues on Object.prototype: `constructor` reads the
\* function Object and `__proto__` reads Object.prototype itself, which is no
\* function.  Every other name offered here is on neither.
CONNECTION_CLASS_MAPPING(key) ==
    IF key \in SupportedTags THEN [found |-> TRUE, callable |-> TRUE, class |-> ClassOfKey[key]]
    ELSE IF key = "constructor" THEN [found |-> TRUE, callable |-> TRUE, class |-> "Object"]
    ELSE IF key = "__proto__" THEN [found |-> TRUE, callable |-> FALSE, class |-> "Object.prototype"]
    ELSE [found |-> FALSE, callable |-> FALSE, class |-> "undefined"]

\* device-type tags a caller may hand in
DeviceTypeInputs ==
    SupportedTags \cup
    {"Cisco_IOS", "HUAWEI_VRP", "MikroTik_RouterOS", "Versa_FlexVNF", "Linux",
     "cisco", "junos", "", "constructor", "Constructor", "__proto__"}

\* the jump-host part of the credentials a caller may hand in: each field is
\* present (truthy) or absent
JumpHostInputs ==
    [useJumpHost : BOOLEAN, jumpHostHost : BOOLEAN, jumpHostPort : BOOLEAN,
     jumpHostUsername : BOOLEAN, jumpHostAuthMethod : BOOLEAN]

\* a jump-host block with host, port, username and auth method, whatever
\* useJumpHost says
CompleteJumpHostBlock(jh) ==
    /\ jh.jumpHostHost
    /\ jh.jumpHostPort
    /\ jh.jumpHostUsername
    /\ jh.jumpHostAuthMethod

\* the condition under which createConnection wraps the session
WrapsInJumpHost(jh) ==
    /\ jh.useJumpHost
    /\ jh.jumpHostHost
    /\ jh.jumpHostPort
    /\ jh.jumpHostUsername
    /\ jh.jumpHostAuthMethod

\* the value createConnection hands back, or the error it raises
CreateConnectionResult(deviceTypeIn, jh) ==
    LET deviceType == ToLowerCase(deviceTypeIn)
        ConnectionClass == CONNECTION_CLASS_MAPPING(deviceType)
    IN  IF ~ConnectionClass.found
        THEN [kind |-> "raised", error |-> "Unsupported device type", tag |-> deviceTypeIn,
              listed |-> SupportedKeys, class |-> "none", wrapped |-> FALSE,
              isConnected |-> FALSE, jh |-> jh]
        ELSE IF ~ConnectionClass.callable
        THEN [kind |-> "raised", error |-> "ConnectionClass is not a constructor",
              tag |-> deviceTypeIn, listed |-> <<>>, class |-> "none", wrapped |-> FALSE,
              isConnected |-> FALSE, jh |-> jh]
        ELSE [kind |-> "returned", error |-> "", tag |-> deviceTypeIn, listed |-> <<>>,
              class |-> ConnectionClass.class, wrapped |-> WrapsInJumpHost(jh),
              isConnected |-> FALSE, jh |-> jh]

\* one call of the static createConnection per behaviour
createConnection ==
    /\ conn = NoConn
    /\ \E t \in DeviceTypeInputs, jh \in JumpHostInputs :
          conn' = CreateConnectionResult(t, jh)
    /\ UNCHANGED <<sessionVars, opVars>>

InitDispatch ==
    /\ NewSession("none", FALSE)
    /\ IdleOp
    /\ conn = NoConn

NextDispatch == createConnection

SpecDispatch == InitDispatch /\ [][NextDispatch]_vars


(***************************************************************************)
(* The dispatcher's other views of the supported set.                      *)
(***************************************************************************)

\* Object.keys(CONNECTION_CLASS_MAPPING): the own keys, in the order written
getSupportedDeviceTypes == SupportedKeys

\* Object.keys(CONNECTION_CLASS_MAPPING).includes(deviceType.toLowerCase())
isDeviceTypeSupported(deviceType) ==
    \E i \in 1..Len(getSupportedDeviceTypes) :
        getSupportedDeviceTypes[i] = ToLowerCase(deviceType)

\* the `value` of each entry getDeviceTypeOptions returns, in its order
getDeviceTypeOptions ==
    << "cisco_ios", "cisco_ios_xe", "cisco_ios_xr", "cisco_nxos", "cisco_asa",
       "cisco_sg300", "juniper_junos", "juniper_srx", "paloalto_panos", "ciena_saos",
       "fortinet_fortios", "ericsson_ipos", "ericsson_mltn", "linux", "generic",
       "vyos", "huawei_vrp", "arista_eos", "hp_procurve", "aruba_os", "aruba_aoscx",
       "ubiquiti_edgeswitch", "ubiquiti_edgerouter", "ubiquiti_unifi",
       "mikrotik_routeros", "mikrotik_switchos", "extreme_exos", "dell_os10",
       "versa_flexvnf" >>

OfferedTags == {getDeviceTypeOptions[i] : i \in 1..Len(getDeviceTypeOptions)}
(***************************************************************************)
(* Control flow of the promise-based handlers.  A program point is the     *)
(* await a handler is suspended at, or the entry of a method or of a catch *)
(* block.  A frame of the stack names where the caller continues, the      *)
(* catch block that encloses the call ("none": the error propagates) and   *)
(* whether that catch block binds the error it catches (keep = FALSE) or   *)
(* ignores it (keep = TRUE).                                               *)
(***************************************************************************)

Goto(l) == pc' = l /\ UNCHANGED <<stack, ret, error>>

\* await this.sub() outside any try block (catch = "none") or inside one
Call(sub, after, catch) ==
    /\ pc' = sub
    /\ stack' = <<[ret |-> after, catch |-> catch, keep |-> FALSE]>> \o stack
    /\ UNCHANGED <<ret, error>>

\* try { await this.sub() } catch { /* ignored */ }, continuing at `after`
TryCall(sub, after) ==
    /\ pc' = sub
    /\ stack' = <<[ret |-> after, catch |-> after, keep |-> TRUE]>> \o stack
    /\ UNCHANGED <<ret, error>>

\* return of a Promise<void>
ReturnVoid ==
    /\ IF stack = <<>>
       THEN pc' = "done" /\ stack' = stack /\ ret' = [kind |-> "void"]
       ELSE pc' = Head(stack).ret /\ stack' = Tail(stack) /\ ret' = ret
    /\ UNCHANGED error

\* return of a value
ReturnValue(r) ==
    /\ ret' = r
    /\ IF stack = <<>>
       THEN pc' = "done" /\ stack' = stack
       ELSE pc' = Head(stack).ret /\ stack' = Tail(stack)
    /\ UNCHANGED error

Handlers == {i \in 1..Len(stack) : stack[i].catch # "none"}

\* an error no try block of the method in progress encloses: it unwinds to the
\* nearest caller that called from inside a try block, or reaches the caller
\* of the operation
Throw(msg) ==
    IF Handlers = {}
    THEN /\ pc' = "done"
         /\ stack' = <<>>
         /\ ret' = [kind |-> "raised", error |-> msg]
         /\ error' = msg
    ELSE LET i == CHOOSE k \in Handlers : \A j \in Handlers : k <= j
         IN  /\ pc' = stack[i].catch
             /\ stack' = SubSeq(stack, i + 1, Len(stack))
             /\ ret' = ret
             /\ error' = IF stack[i].keep THEN error ELSE msg

\* an error raised inside a try block of the method in progress
Catch(l, msg) == pc' = l /\ error' = msg /\ UNCHANGED <<stack, ret>>

(***************************************************************************)
(* Channel I/O: BaseConnection.writeChannel, readChannel, readUntilPrompt. *)
(* A write appends to the channel or raises; a read returns what the       *)
(* device sent in the window or raises (readUntilPrompt: on its timeout).  *)
(* Without a channel both raise.                                           *)
(***************************************************************************)

Ev(kind, data) == [ev |-> kind, data |-> data]

Wrote(data) == currentChannel /\ chan' = Append(chan, Ev("w", data)) /\ output' = output

WriteFailed(data) == chan' = Append(chan, Ev("wx", data)) /\ output' = output

Got(a) == currentChannel /\ chan' = Append(chan, Ev("r", a)) /\ output' = a

ReadFailed == chan' = Append(chan, Ev("rx", "")) /\ output' = output

NoIO == UNCHANGED <<chan, output>>

\* this.returnChar
returnChar == "\n"

SameSession == UNCHANGED <<isConnected, currentChannel, flags, basePrompt, closed>>

SameCall == UNCHANGED <<vendor, fastMode, op, args, cmds, attempts, par, conn>>

SameCallButCmds == UNCHANGED <<vendor, fastMode, op, args, attempts, par, conn>>

\* what a device answers to a command
OkReply == "ok\nh> "

ErrorReplies == {"syntax error\nh> ", "Error: bad\nh> "}

CommandReplies == {OkReply} \cup ErrorReplies

\* the text of commands a caller may send
Commands == {"set a", "set b"}

RECURSIVE SeqsUpTo(_, _)
\* the sequences over S of length at most n
SeqsUpTo(S, n) ==
    IF n = 0 THEN {<<>>}
    ELSE LET shorter == SeqsUpTo(S, n - 1)
         IN  shorter \cup {Append(q, x) : q \in shorter, x \in S}

ConfigLists == SeqsUpTo(Commands, MaxCmds)

\* a CommandResult; `sanitized` tells whether `text` went through the
\* vendor's sanitizer or is the literal the handler returns
Result(command, success, sanitized, text, msg) ==
    [kind |-> "returned", command |-> command, success |-> success,
     output |-> [sanitized |-> sanitized, text |-> text], error |-> msg]

\* { command, output: '', success: false, error }
Failure(command, msg) == Result(command, FALSE, FALSE, "", msg)

\* { command, output: sanitize(raw), success: true }
Success(command, raw) == Result(command, TRUE, TRUE, raw, "")

\* try { await this.writeChannel(cmd); await this.readChannel(t) } catch { }
\* at the program points l and l.read, going on with Continue either way
BestEffort(l, cmd, Continue) ==
    \/ /\ pc = l
       /\ \/ Wrote(cmd) /\ Goto(l \o ".read")
          \/ WriteFailed(cmd) /\ Continue
    \/ /\ pc = l \o ".read"
       /\ \/ Got("")
          \/ ReadFailed
       /\ Continue

\* the answers to the bare newline setBasePrompt writes
ProbeAnswers == {"", ">", "h> "}

\* the last non-empty line without its prompt terminator
BasePromptOf(out, terminators) == Trim(StripTerminator(LastLine(Trim(out)), terminators))

(***************************************************************************)
(* BaseConnection: connect, disconnect, createShellChannel, setBasePrompt; *)
(* CiscoConnection: createCiscoShellChannel, setBasePrompt, enable mode.   *)
(***************************************************************************)

\* connect: open the transport and the channel, run sessionPreparation
Base_connect ==
    /\ \/ /\ pc = "connect"
          /\ \/ /\ currentChannel' = TRUE
                /\ Call("sessionPreparation", "connected", "none")
             \/ /\ UNCHANGED currentChannel
                /\ Throw("connect failed")
          /\ UNCHANGED <<isConnected, flags, basePrompt, closed>>
       \/ /\ pc = "connected"
          /\ isConnected' = TRUE
          /\ ReturnVoid
          /\ UNCHANGED <<currentChannel, flags, basePrompt, closed>>
    /\ NoIO
    /\ SameCall

\* disconnect: close the channel and the SSH client
Base_disconnect ==
    /\ pc = "super.disconnect"
    /\ isConnected' = FALSE
    /\ currentChannel' = FALSE
    /\ closed' = closed + 1
    /\ ReturnVoid
    /\ UNCHANGED <<flags, basePrompt>>
    /\ NoIO
    /\ SameCall

\* client.shell(): the channel is opened, or the request is rejected
ShellOpened == currentChannel' = TRUE

\* vendors that keep the setBasePrompt of BaseConnection or CiscoConnection
BasePromptVendors ==
    {"versa", "huawei", "edgerouter", "procurve", "unifi", "arista", "aruba", "edgeswitch"}

Base_setBasePrompt ==
    /\ vendor \in BasePromptVendors
    /\ \/ /\ pc = "setBasePrompt"
          /\ \/ Wrote(returnChar) /\ Goto("setBasePrompt.read")
             \/ WriteFailed(returnChar) /\ Throw("write failed")
          /\ UNCHANGED basePrompt
       \/ /\ pc = "setBasePrompt.read"
          /\ \/ \E a \in ProbeAnswers :
                  /\ Got(a)
                  /\ basePrompt' = BasePromptOf(a, {"#", ">", "$", "%"})
                  /\ ReturnVoid
             \/ /\ ReadFailed
                /\ UNCHANGED basePrompt
                /\ Throw("read failed")
    /\ UNCHANGED <<isConnected, currentChannel, flags, closed>>
    /\ SameCall

\* vendors that extend CiscoConnection and use its enable mode
EnableVendors == {"procurve", "unifi", "arista", "aruba", "edgeswitch"}

\* checkAndEnterEnableMode and enterEnableMode: `enable`, confirmed by a
\* prompt that ends in #
Cisco_enterEnableMode ==
    /\ vendor \in EnableVendors
    /\ \/ /\ pc = "checkAndEnterEnableMode"
          /\ IF flags.inEnableMode THEN ReturnVoid ELSE Goto("enterEnableMode")
          /\ NoIO
          /\ UNCHANGED flags
       \/ /\ pc = "enterEnableMode"
          /\ \/ Wrote("enable") /\ Goto("enterEnableMode.read")
             \/ WriteFailed("enable") /\ Throw("write failed")
          /\ UNCHANGED flags
       \/ /\ pc = "enterEnableMode.read"
          /\ \/ \E a \in {"h# ", "h> "} :
                  /\ Got(a)
                  /\ IF Includes(a, "#")
                     THEN flags' = [flags EXCEPT !.inEnableMode = TRUE] /\ ReturnVoid
                     ELSE UNCHANGED flags /\ Throw("Failed to enter enable mode")
             \/ ReadFailed /\ UNCHANGED flags /\ Throw("read failed")
    /\ UNCHANGED <<isConnected, currentChannel, basePrompt, closed>>
    /\ SameCall

(***************************************************************************)
(* MikroTik RouterOS / SwitchOS: MikrotikConnection.                       *)
(***************************************************************************)

\* the base prompt setBasePrompt learns from the answer to the probe
Mikrotik_basePromptOf(out) ==
    LET lastLine == Trim(LastLine(Trim(out)))
    IN  Trim(StripTerminator(lastLine, {">"}))

Mikrotik_LoginAnswers ==
    {"", "Please press \"Enter\" to continue", "Do you want to see the software license? [Y/n]"}

Mikrotik_sessionPreparation ==
    /\ vendor = "mikrotik"
    /\ \/ /\ pc = "sessionPreparation"
          /\ Goto("handleSpecialLogin.read")
          /\ NoIO
       \/ /\ pc = "handleSpecialLogin.read"
          /\ \/ \E a \in Mikrotik_LoginAnswers :
                  /\ Got(a)
                  /\ IF Includes(a, "Please press \"Enter\" to continue")
                     THEN Goto("handleSpecialLogin.enter")
                     ELSE IF Includes(ToLowerCase(a), "do you want to see the software license")
                     THEN Goto("handleSpecialLogin.n")
                     ELSE Call("setBasePrompt", "sessionPreparation.end", "none")
             \/ /\ ReadFailed
                /\ Call("setBasePrompt", "sessionPreparation.end", "none")
       \/ /\ pc = "handleSpecialLogin.enter"
          /\ \/ Wrote(returnChar) /\ Goto("handleSpecialLogin.read2")
             \/ WriteFailed(returnChar) /\ Call("setBasePrompt", "sessionPreparation.end", "none")
       \/ /\ pc = "handleSpecialLogin.n"
          /\ \/ Wrote("n") /\ Goto("handleSpecialLogin.read2")
             \/ WriteFailed("n") /\ Call("setBasePrompt", "sessionPreparation.end", "none")
       \/ /\ pc = "handleSpecialLogin.read2"
          /\ \/ Got("")
             \/ ReadFailed
          /\ Call("setBasePrompt", "sessionPreparation.end", "none")
       \/ /\ pc = "sessionPreparation.end"
          /\ ReturnVoid
          /\ NoIO
    /\ SameSession
    /\ SameCall

Mikrotik_setBasePrompt ==
    /\ vendor = "mikrotik"
    /\ \/ /\ pc = "setBasePrompt"
          /\ \/ Wrote(returnChar) /\ Goto("setBasePrompt.read")
             \/ WriteFailed(returnChar) /\ Throw("write failed")
          /\ UNCHANGED basePrompt
       \/ /\ pc = "setBasePrompt.read"
          /\ \/ \E a \in ProbeAnswers :
                  /\ Got(a)
                  /\ basePrompt' = Mikrotik_basePromptOf(a)
                  /\ ReturnVoid
             \/ /\ ReadFailed
                /\ UNCHANGED basePrompt
                /\ Throw("read failed")
    /\ UNCHANGED <<isConnected, currentChannel, flags, closed>>
    /\ SameCall

\* a sendCommand without its try block: the error reaches the caller
Mikrotik_sendCommand_uncaught(msg) == Throw(msg)

\* the catch block of sendCommand
Mikrotik_sendCommand_catch(msg) == ReturnValue(Failure(Head(cmds), msg))

Mikrotik_sendCommand ==
    /\ vendor = "mikrotik"
    /\ \/ /\ pc = "sendCommand"
          /\ IF ~isConnected \/ ~currentChannel
             THEN Mikrotik_sendCommand_catch("Not connected to device")
             ELSE Goto("sendCommand.write")
          /\ NoIO
       \/ /\ pc = "sendCommand.write"
          /\ \/ Wrote(Head(cmds)) /\ Goto("sendCommand.read")
             \/ WriteFailed(Head(cmds)) /\ Mikrotik_sendCommand_catch("write failed")
       \/ /\ pc = "sendCommand.read"
          /\ \/ \E a \in CommandReplies : Got(a) /\ ReturnValue(Success(Head(cmds), a))
             \/ ReadFailed /\ Mikrotik_sendCommand_catch("Timeout waiting for prompt")
    /\ SameSession
    /\ SameCall

\* the catch block of sendConfig
Mikrotik_sendConfig_catch(msg) == ReturnValue(Failure(args, msg))

\* sendConfig: no configuration mode, one sendCommand per command
Mikrotik_sendConfig ==
    /\ vendor = "mikrotik"
    /\ \/ /\ pc = "sendConfig"
          /\ IF ~isConnected \/ ~currentChannel
             THEN Mikrotik_sendConfig_catch("Not connected to device")
             ELSE IF cmds = <<>>
             THEN ReturnValue(Success(args, ""))
             ELSE Call("sendCommand", "sendConfig.result", "sendConfig.catch")
          /\ UNCHANGED cmds
       \/ /\ pc = "sendConfig.result"
          /\ IF ~ret.success
             THEN Mikrotik_sendConfig_catch("Command failed") /\ UNCHANGED cmds
             ELSE /\ cmds' = Tail(cmds)
                  /\ IF Tail(cmds) = <<>>
                     THEN ReturnValue(Success(args, output))
                     ELSE Call("sendCommand", "sendConfig.result", "sendConfig.catch")
       \/ /\ pc = "sendConfig.catch"
          /\ Mikrotik_sendConfig_catch(error)
          /\ UNCHANGED cmds
    /\ NoIO
    /\ SameSession
    /\ SameCallButCmds

\* a disconnect that does not look at isConnected
Mikrotik_disconnect_unguarded == FALSE

\* the guard disconnect starts with
Mikrotik_disconnect_guard == ~isConnected

\* a disconnect without its try block: the error reaches the caller
Mikrotik_disconnect_uncaught == Throw("logout failed")

\* the empty catch block of disconnect, and its finally block
Mikrotik_disconnect_catch == Goto("super.disconnect")

\* disconnect: `quit`, then the inherited disconnect whatever happened
Mikrotik_disconnect ==
    /\ vendor = "mikrotik"
    /\ \/ /\ pc = "disconnect"
          /\ IF Mikrotik_disconnect_guard THEN ReturnVoid ELSE Goto("disconnect.quit")
          /\ NoIO
       \/ /\ pc = "disconnect.quit"
          /\ \/ Wrote("quit") /\ Goto("disconnect.read")
             \/ WriteFailed("quit") /\ Mikrotik_disconnect_catch
       \/ /\ pc = "disconnect.read"
          /\ \/ Got("") /\ Goto("super.disconnect")
             \/ ReadFailed /\ Mikrotik_disconnect_catch
    /\ SameSession
    /\ SameCall

(***************************************************************************)
(* Palo Alto PAN-OS: PaloAltoConnection.                                   *)
(***************************************************************************)

\* determineMode
PaloAlto_determineMode(data) ==
    IF Includes(data, "root@") \/ Includes(data, "%") \/ Includes(data, "$")
    THEN "shell"
    ELSE IF Includes(data, "[edit]") \/ Includes(data, "[set]") \/ Includes(data, "[delete]")
    THEN "config"
    ELSE "operational"

PaloAlto_ModeAnswers == {"h> ", "root@h% ", "[edit]\nh# ", ""}

\* the two setup tasks sessionPreparation hands to Promise.all: each runs up
\* to its first await when it is called, so both first writes are made before
\* either answer is read
PaloAlto_parallelSetup ==
    /\ vendor = "paloalto"
    /\ \/ /\ pc = "sessionPreparation.parallel"
          /\ \E okW, okP \in BOOLEAN :
                /\ chan' = chan \o
                      <<Ev(IF okW /\ currentChannel THEN "w" ELSE "wx", "set cli terminal width 511"),
                        Ev(IF okP /\ currentChannel THEN "w" ELSE "wx", "set cli pager off")>>
                /\ par' = [width  |-> IF okW /\ currentChannel THEN "read" ELSE "done",
                           paging |-> IF okP /\ currentChannel THEN "read" ELSE "done"]
          /\ Goto("sessionPreparation.join")
       \* setTerminalWidth resumes with the answer to its command
       \/ /\ pc = "sessionPreparation.join"
          /\ par.width = "read"
          /\ \/ \E a \in {"", "Unknown command"}, ok \in BOOLEAN :
                  IF Includes(a, "Unknown command") \/ Includes(a, "Error")
                  THEN /\ chan' = chan \o
                            <<Ev("r", a), Ev(IF ok THEN "w" ELSE "wx", "set cli screen-width 511")>>
                       /\ par' = [par EXCEPT !.width = IF ok THEN "read2" ELSE "done"]
                  ELSE /\ ok
                       /\ chan' = Append(chan, Ev("r", a))
                       /\ par' = [par EXCEPT !.width = "done"]
             \/ /\ chan' = Append(chan, Ev("rx", ""))
                /\ par' = [par EXCEPT !.width = "done"]
          /\ Goto("sessionPreparation.join")
       \/ /\ pc = "sessionPreparation.join"
          /\ par.width = "read2"
          /\ chan' \in {Append(chan, Ev("r", "")), Append(chan, Ev("rx", ""))}
          /\ par' = [par EXCEPT !.width = "done"]
          /\ Goto("sessionPreparation.join")
       \* disablePaging resumes with the answer to its command
       \/ /\ pc = "sessionPreparation.join"
          /\ par.paging = "read"
          /\ \/ \E ok \in BOOLEAN :
                  /\ chan' = chan \o
                        <<Ev("r", ""), Ev(IF ok THEN "w" ELSE "wx", "set cli screen-length 0")>>
                  /\ par' = [par EXCEPT !.paging = IF ok THEN "read2" ELSE "done"]
             \/ /\ chan' = Append(chan, Ev("rx", ""))
                /\ par' = [par EXCEPT !.paging = "done"]
          /\ Goto("sessionPreparation.join")
       \/ /\ pc = "sessionPreparation.join"
          /\ par.paging = "read2"
          /\ chan' \in {Append(chan, Ev("r", "")), Append(chan, Ev("rx", ""))}
          /\ par' = [par EXCEPT !.paging = "done"]
          /\ Goto("sessionPreparation.join")
       \* both tasks have settled: Promise.all resolves
       \/ /\ pc = "sessionPreparation.join"
          /\ par.width = "done" /\ par.paging = "done"
          /\ par' = NoPar
          /\ UNCHANGED chan
          /\ Call("setBasePrompt", "sessionPreparation.end", "none")
    /\ UNCHANGED output
    /\ SameSession
    /\ UNCHANGED <<vendor, fastMode, op, args, cmds, attempts, conn>>

PaloAlto_sessionPreparation ==
    /\ vendor = "paloalto"
    /\ \/ /\ pc = "sessionPreparation"
          /\ \/ /\ ShellOpened
                /\ IF fastMode
                   THEN Call("setBasePrompt", "sessionPreparation.end", "none")
                   ELSE Call("enterOperationalMode", "sessionPreparation.parallel", "none")
             \/ /\ UNCHANGED currentChannel
                /\ Throw("shell failed")
       \/ /\ pc = "sessionPreparation.end"
          /\ ReturnVoid
          /\ UNCHANGED currentChannel
    /\ NoIO
    /\ UNCHANGED <<isConnected, flags, basePrompt, closed>>
    /\ SameCall

PaloAlto_enterOperationalMode ==
    /\ vendor = "paloalto"
    /\ \/ /\ pc = "enterOperationalMode"
          /\ \/ Wrote(returnChar) /\ Goto("enterOperationalMode.read")
             \/ WriteFailed(returnChar) /\ Throw("write failed")
          /\ UNCHANGED flags
       \/ /\ pc = "enterOperationalMode.read"
          /\ \/ \E a \in PaloAlto_ModeAnswers :
                  /\ Got(a)
                  /\ CASE PaloAlto_determineMode(a) = "shell" ->
                            /\ flags' = [flags EXCEPT !.inShellMode = TRUE,
                                                      !.inOperationalMode = FALSE]
                            /\ Goto("enterOperationalMode.cli")
                       [] PaloAlto_determineMode(a) = "operational" ->
                            /\ flags' = [flags EXCEPT !.inOperationalMode = TRUE,
                                                      !.inShellMode = FALSE]
                            /\ ReturnVoid
                       [] PaloAlto_determineMode(a) = "config" ->
                            /\ flags' = [flags EXCEPT !.inOperationalMode = FALSE,
                                                      !.inConfigMode = TRUE]
                            /\ ReturnVoid
             \/ ReadFailed /\ UNCHANGED flags /\ Throw("read failed")
       \/ /\ pc = "enterOperationalMode.cli"
          /\ \/ Wrote("cli") /\ Goto("enterOperationalMode.cli.read")
             \/ WriteFailed("cli") /\ Throw("write failed")
          /\ UNCHANGED flags
       \/ /\ pc = "enterOperationalMode.cli.read"
          /\ \/ \E a \in {"h> ", ""} :
                  /\ Got(a)
                  /\ flags' = IF Includes(a, ">") \/ Includes(a, "#")
                              THEN [flags EXCEPT !.inOperationalMode = TRUE,
                                                 !.inShellMode = FALSE]
                              ELSE flags
                  /\ ReturnVoid
             \/ ReadFailed /\ UNCHANGED flags /\ Throw("read failed")
    /\ UNCHANGED <<isConnected, currentChannel, basePrompt, closed>>
    /\ SameCall

PaloAlto_setBasePrompt ==
    /\ vendor = "paloalto"
    /\ \/ /\ pc = "setBasePrompt"
          /\ \/ Wrote(returnChar) /\ Goto("setBasePrompt.read")
             \/ WriteFailed(returnChar) /\ Throw("write failed")
          /\ UNCHANGED basePrompt
       \/ /\ pc = "setBasePrompt.read"
          /\ \/ \E a \in ProbeAnswers :
                  /\ Got(a)
                  /\ basePrompt' = BasePromptOf(a, {">", "#", "$", "%"})
                  /\ ReturnVoid
             \/ /\ ReadFailed
                /\ UNCHANGED basePrompt
                /\ Throw("read failed")
    /\ UNCHANGED <<isConnected, currentChannel, flags, closed>>
    /\ SameCall

PaloAlto_enterConfigMode ==
    /\ vendor = "paloalto"
    /\ \/ /\ pc = "enterConfigMode"
          /\ IF ~flags.inOperationalMode
             THEN Call("enterOperationalMode", "enterConfigMode.write", "none")
             ELSE Goto("enterConfigMode.write")
          /\ NoIO
          /\ UNCHANGED flags
       \/ /\ pc = "enterConfigMode.write"
          /\ \/ Wrote("configure") /\ Goto("enterConfigMode.read")
             \/ WriteFailed("configure") /\ Throw("Failed to enter configuration mode")
          /\ UNCHANGED flags
       \/ /\ pc = "enterConfigMode.read"
          /\ \/ \E a \in {"Entering configuration mode\n[edit]\nh# ", "Unknown command\nh> "} :
                  /\ Got(a)
                  /\ IF Includes(a, "Entering configuration mode") \/ Includes(a, "[edit]")
                     THEN flags' = [flags EXCEPT !.inConfigMode = TRUE] /\ ReturnVoid
                     ELSE UNCHANGED flags /\ Throw("Failed to enter configuration mode")
             \/ ReadFailed /\ UNCHANGED flags /\ Throw("Failed to enter configuration mode")
    /\ UNCHANGED <<isConnected, currentChannel, basePrompt, closed>>
    /\ SameCall

\* the check exitConfigMode ends with
PaloAlto_exitConfigMode_check(out) ==
    IF Includes(out, ">") /\ ~Includes(out, "[edit]")
    THEN flags' = [flags EXCEPT !.inConfigMode = FALSE] /\ ReturnVoid
    ELSE UNCHANGED flags /\ Throw("Failed to exit configuration mode")

PaloAlto_ExitAnswers == {"h> ", "[edit]\nh# "}

PaloAlto_exitConfigMode ==
    /\ vendor = "paloalto"
    /\ \/ /\ pc = "exitConfigMode"
          /\ IF ~flags.inConfigMode THEN ReturnVoid ELSE Goto("exitConfigMode.write")
          /\ NoIO
          /\ UNCHANGED flags
       \/ /\ pc = "exitConfigMode.write"
          /\ \/ Wrote("exit") /\ Goto("exitConfigMode.read")
             \/ WriteFailed("exit") /\ Throw("Failed to exit configuration mode")
          /\ UNCHANGED flags
       \/ /\ pc = "exitConfigMode.read"
          /\ \/ \E a \in PaloAlto_ExitAnswers \cup {"Exit with uncommitted changes? [yes,no]"} :
                  /\ Got(a)
                  /\ IF Includes(a, "Exit with uncommitted changes")
                     THEN UNCHANGED flags /\ Goto("exitConfigMode.yes")
                     ELSE PaloAlto_exitConfigMode_check(a)
             \/ ReadFailed /\ UNCHANGED flags /\ Throw("Failed to exit configuration mode")
       \/ /\ pc = "exitConfigMode.yes"
          /\ \/ Wrote("yes") /\ Goto("exitConfigMode.read2")
             \/ WriteFailed("yes") /\ Throw("Failed to exit configuration mode")
          /\ UNCHANGED flags
       \/ /\ pc = "exitConfigMode.read2"
          /\ \/ \E a \in PaloAlto_ExitAnswers : Got(a) /\ PaloAlto_exitConfigMode_check(a)
             \/ ReadFailed /\ UNCHANGED flags /\ Throw("Failed to exit configuration mode")
    /\ UNCHANGED <<isConnected, currentChannel, basePrompt, closed>>
    /\ SameCall

\* the catch block of sendCommand
PaloAlto_sendCommand_catch(msg) == ReturnValue(Failure(Head(cmds), msg))

PaloAlto_sendCommand ==
    /\ vendor = "paloalto"
    /\ \/ /\ pc = "sendCommand"
          /\ IF ~isConnected \/ ~currentChannel
             THEN PaloAlto_sendCommand_catch("Not connected to device")
             ELSE IF ~fastMode /\ ~flags.inOperationalMode /\ ~flags.inConfigMode
             THEN Call("enterOperationalMode", "sendCommand.write", "sendCommand.catch")
             ELSE Goto("sendCommand.write")
          /\ NoIO
       \/ /\ pc = "sendCommand.write"
          /\ \/ Wrote(Head(cmds)) /\ Goto("sendCommand.read")
             \/ WriteFailed(Head(cmds)) /\ PaloAlto_sendCommand_catch("write failed")
       \/ /\ pc = "sendCommand.read"
          /\ \/ \E a \in CommandReplies : Got(a) /\ ReturnValue(Success(Head(cmds), a))
             \/ ReadFailed /\ PaloAlto_sendCommand_catch("Timeout waiting for prompt")
       \/ /\ pc = "sendCommand.catch"
          /\ PaloAlto_sendCommand_catch(error)
          /\ NoIO
    /\ SameSession
    /\ SameCall

\* the check sendConfig makes on the answer to a configuration command
PaloAlto_configError(out) == Includes(out, "Error:") \/ Includes(out, "Invalid syntax")

PaloAlto_sendConfig ==
    /\ vendor = "paloalto"
    /\ \/ /\ pc = "sendConfig"
          /\ IF ~isConnected \/ ~currentChannel
             THEN Catch("sendConfig.catch", "Not connected to device")
             ELSE Call("enterConfigMode", "sendConfig.loop", "sendConfig.catch")
          /\ NoIO
          /\ UNCHANGED cmds
       \/ /\ pc = "sendConfig.loop"
          /\ IF cmds = <<>>
             THEN Call("exitConfigMode", "sendConfig.return", "sendConfig.catch")
             ELSE Goto("sendConfig.write")
          /\ NoIO
          /\ UNCHANGED cmds
       \/ /\ pc = "sendConfig.write"
          /\ \/ Wrote(Head(cmds)) /\ Goto("sendConfig.read")
             \/ WriteFailed(Head(cmds)) /\ Catch("sendConfig.catch", "write failed")
          /\ UNCHANGED cmds
       \/ /\ pc = "sendConfig.read"
          /\ \/ \E a \in CommandReplies :
                  /\ Got(a)
                  /\ IF PaloAlto_configError(a)
                     THEN Catch("sendConfig.catch", "Configuration command failed") /\ UNCHANGED cmds
                     ELSE Goto("sendConfig.loop") /\ cmds' = Tail(cmds)
             \/ ReadFailed /\ Catch("sendConfig.catch", "read failed") /\ UNCHANGED cmds
       \/ /\ pc = "sendConfig.return"
          /\ ReturnValue(Success(args, output))
          /\ NoIO
          /\ UNCHANGED cmds
       \/ /\ pc = "sendConfig.catch"
          /\ IF flags.inConfigMode
             THEN TryCall("exitConfigMode", "sendConfig.failed")
             ELSE ReturnValue(Failure(args, error))
          /\ NoIO
          /\ UNCHANGED cmds
       \/ /\ pc = "sendConfig.failed"
          /\ ReturnValue(Failure(args, error))
          /\ NoIO
          /\ UNCHANGED cmds
    /\ SameSession
    /\ SameCallButCmds


(***************************************************************************)
(* Palo Alto PAN-OS: commitConfig, enterShellMode and                      *)
(* returnToOperationalMode.                                                *)
(***************************************************************************)

\* comment ? `commit description "${comment}"` : 'commit'
PaloAlto_commitCommand(comment) ==
    IF comment = <<>> THEN "commit" ELSE "commit description \"" \o Head(comment) \o "\""

\* the test commitConfig makes on what it read after the commit command
PaloAlto_commitSucceeded(out) ==
    \/ Includes(out, "Configuration committed successfully")
    \/ Includes(out, "Configuration committed")
    \/ Includes(out, ">")

\* what a device prints after a commit command: the commit went through, the
\* commit was rejected at the operational prompt, the commit was rejected at
\* the configuration prompt
PaloAlto_CommitAnswers ==
    {"Configuration committed successfully\nh> ",
     "Validation Error:\nCommit failed\nh> ",
     "Validation Error:\nCommit failed\n[edit]\nh# "}

\* the catch block of commitConfig
PaloAlto_commitConfig_catch(msg) == ReturnValue(Failure("commit", msg))

PaloAlto_commitConfig ==
    /\ vendor = "paloalto"
    /\ \/ /\ pc = "commitConfig"
          /\ IF ~isConnected \/ ~currentChannel
             THEN PaloAlto_commitConfig_catch("Not connected to device")
             ELSE IF ~flags.inOperationalMode
             THEN Call("enterOperationalMode", "commitConfig.write", "commitConfig.catch")
             ELSE Goto("commitConfig.write")
          /\ NoIO
       \/ /\ pc = "commitConfig.write"
          /\ \/ Wrote(PaloAlto_commitCommand(args)) /\ Goto("commitConfig.read")
             \/ /\ WriteFailed(PaloAlto_commitCommand(args))
                /\ PaloAlto_commitConfig_catch("write failed")
       \/ /\ pc = "commitConfig.read"
          /\ \/ \E a \in PaloAlto_CommitAnswers :
                  /\ Got(a)
                  /\ IF PaloAlto_commitSucceeded(a)
                     THEN ReturnValue(Success(PaloAlto_commitCommand(args), a))
                     ELSE PaloAlto_commitConfig_catch("Configuration commit failed")
             \/ ReadFailed /\ PaloAlto_commitConfig_catch("Timeout waiting for prompt")
       \/ /\ pc = "commitConfig.catch"
          /\ PaloAlto_commitConfig_catch(error)
          /\ NoIO
    /\ SameSession
    /\ SameCall

\* enterShellMode: `debug cli on`, and the flags of the shell when a shell
\* prompt answers
PaloAlto_enterShellMode ==
    /\ vendor = "paloalto"
    /\ \/ /\ pc = "enterShellMode"
          /\ IF flags.inShellMode
             THEN ReturnVoid
             ELSE Goto("enterShellMode.write")
          /\ NoIO
          /\ UNCHANGED flags
       \/ /\ pc = "enterShellMode.write"
          /\ \/ Wrote("debug cli on") /\ Goto("enterShellMode.read")
             \/ WriteFailed("debug cli on") /\ Throw("Failed to enter shell mode")
          /\ UNCHANGED flags
       \/ /\ pc = "enterShellMode.read"
          /\ \/ \E a \in {"root@h% ", "h> "} :
                  /\ Got(a)
                  /\ flags' = IF Includes(a, "$") \/ Includes(a, "%")
                              THEN [flags EXCEPT !.inShellMode = TRUE,
                                                 !.inOperationalMode = FALSE,
                                                 !.inConfigMode = FALSE]
                              ELSE flags
                  /\ ReturnVoid
             \/ ReadFailed /\ UNCHANGED flags /\ Throw("Failed to enter shell mode")
    /\ UNCHANGED <<isConnected, currentChannel, basePrompt, closed>>
    /\ SameCall

\* returnToOperationalMode: `exit` from the shell
PaloAlto_returnToOperationalMode ==
    /\ vendor = "paloalto"
    /\ \/ /\ pc = "returnToOperationalMode"
          /\ IF ~flags.inShellMode
             THEN ReturnVoid
             ELSE Goto("returnToOperationalMode.write")
          /\ NoIO
          /\ UNCHANGED flags
       \/ /\ pc = "returnToOperationalMode.write"
          /\ \/ Wrote("exit") /\ Goto("returnToOperationalMode.read")
             \/ WriteFailed("exit") /\ Throw("Failed to return to operational mode")
          /\ UNCHANGED flags
       \/ /\ pc = "returnToOperationalMode.read"
          /\ \/ \E a \in {"h> ", "root@h% "} :
                  /\ Got(a)
                  /\ flags' = IF Includes(a, ">") \/ Includes(a, "#")
                              THEN [flags EXCEPT !.inShellMode = FALSE,
                                                 !.inOperationalMode = TRUE]
                              ELSE flags
                  /\ ReturnVoid
             \/ ReadFailed /\ UNCHANGED flags /\ Throw("Failed to return to operational mode")
    /\ UNCHANGED <<isConnected, currentChannel, basePrompt, closed>>
    /\ SameCall
(***************************************************************************)
(* Extreme EXOS: ExtremeExosConnection.                                    *)
(***************************************************************************)

RECURSIVE LeadLen(_)
\* the length of the prefix [\*\s]* takes
LeadLen(s) ==
    IF Len(s) > 0 /\ (SubSeq(s, 1, 1) = "*" \/ IsSpace(SubSeq(s, 1, 1)))
    THEN 1 + LeadLen(SubSeq(s, 2, Len(s)))
    ELSE 0

\* the places of prompt where a period is followed by a digit
IdDots(prompt) ==
    {k \in 1..(Len(prompt) - 1) :
        SubSeq(prompt, k, k) = "." /\ IsDigit(SubSeq(prompt, k + 1, k + 1))}

\* prompt.match(promptIdPattern): the group (.*) of /[\*\s]*(.*)\.\d+/
promptIdPattern(prompt) ==
    IF IdDots(prompt) = {}
    THEN [matched |-> FALSE, group |-> ""]
    ELSE LET k == CHOOSE d \in IdDots(prompt) : \A e \in IdDots(prompt) : e <= d
         IN  [matched |-> TRUE, group |-> SubSeq(prompt, LeadLen(prompt) + 1, k - 1)]

Extreme_basePromptOf(out) ==
    LET prompt == BasePromptOf(out, {">", "#", "$"})
        match == promptIdPattern(prompt)
    IN  IF match.matched THEN match.group ELSE prompt

Extreme_ProbeAnswers == {"", "#", "* h.3 # "}

Extreme_sessionPreparation ==
    /\ vendor = "extreme"
    /\ \/ /\ pc = "sessionPreparation"
          /\ \/ /\ ShellOpened
                /\ Call("setBasePrompt",
                        IF fastMode THEN "sessionPreparation.end" ELSE "disableExosPaging",
                        "none")
             \/ /\ UNCHANGED currentChannel
                /\ Throw("shell failed")
          /\ NoIO
       \/ /\ BestEffort("disableExosPaging", "disable clipaging", Goto("disableExosPrompting"))
          /\ UNCHANGED currentChannel
       \/ /\ BestEffort("disableExosPrompting", "disable cli prompting", ReturnVoid)
          /\ UNCHANGED currentChannel
       \/ /\ pc = "sessionPreparation.end"
          /\ ReturnVoid
          /\ NoIO
          /\ UNCHANGED currentChannel
    /\ UNCHANGED <<isConnected, flags, basePrompt, closed>>
    /\ SameCall

Extreme_setBasePrompt ==
    /\ vendor = "extreme"
    /\ \/ /\ pc = "setBasePrompt"
          /\ \/ Wrote(returnChar) /\ Goto("setBasePrompt.read")
             \/ WriteFailed(returnChar) /\ Throw("write failed")
          /\ UNCHANGED basePrompt
       \/ /\ pc = "setBasePrompt.read"
          /\ \/ \E a \in Extreme_ProbeAnswers :
                  /\ Got(a)
                  /\ basePrompt' = Extreme_basePromptOf(a)
                  /\ ReturnVoid
             \/ /\ ReadFailed
                /\ UNCHANGED basePrompt
                /\ Throw("read failed")
    /\ UNCHANGED <<isConnected, currentChannel, flags, closed>>
    /\ SameCall

\* the catch block of sendCommand
Extreme_sendCommand_catch(msg) == ReturnValue(Failure(Head(cmds), msg))

\* sendCommand: learn the prompt again, then the exchange
Extreme_sendCommand ==
    /\ vendor = "extreme"
    /\ \/ /\ pc = "sendCommand"
          /\ IF ~isConnected \/ ~currentChannel
             THEN Extreme_sendCommand_catch("Not connected to device")
             ELSE Call("setBasePrompt", "sendCommand.write", "sendCommand.catch")
          /\ NoIO
       \/ /\ pc = "sendCommand.write"
          /\ \/ Wrote(Head(cmds)) /\ Goto("sendCommand.read")
             \/ WriteFailed(Head(cmds)) /\ Extreme_sendCommand_catch("write failed")
       \/ /\ pc = "sendCommand.read"
          /\ \/ \E a \in CommandReplies : Got(a) /\ ReturnValue(Success(Head(cmds), a))
             \/ ReadFailed /\ Extreme_sendCommand_catch("Timeout waiting for prompt")
       \/ /\ pc = "sendCommand.catch"
          /\ Extreme_sendCommand_catch(error)
          /\ NoIO
    /\ SameSession
    /\ SameCall


\* a sendConfig that takes every result of sendCommand for a success
Extreme_sendConfig_failed_never(result) == FALSE

\* if (!result.success) of the loop of sendConfig
Extreme_sendConfig_failed(result) == ~result.success

\* the catch block of sendConfig
Extreme_sendConfig_catch(msg) == ReturnValue(Failure(args, msg))

\* sendConfig: no configuration mode, one sendCommand per command
Extreme_sendConfig ==
    /\ vendor = "extreme"
    /\ \/ /\ pc = "sendConfig"
          /\ IF ~isConnected \/ ~currentChannel
             THEN Extreme_sendConfig_catch("Not connected to device")
             ELSE IF cmds = <<>>
             THEN ReturnValue(Success(args, ""))
             ELSE Call("sendCommand", "sendConfig.result", "sendConfig.catch")
          /\ UNCHANGED cmds
       \/ /\ pc = "sendConfig.result"
          /\ IF Extreme_sendConfig_failed(ret)
             THEN Extreme_sendConfig_catch("Command failed") /\ UNCHANGED cmds
             ELSE /\ cmds' = Tail(cmds)
                  /\ IF Tail(cmds) = <<>>
                     THEN ReturnValue(Success(args, output))
                     ELSE Call("sendCommand", "sendConfig.result", "sendConfig.catch")
       \/ /\ pc = "sendConfig.catch"
          /\ Extreme_sendConfig_catch(error)
          /\ UNCHANGED cmds
    /\ NoIO
    /\ SameSession
    /\ SameCallButCmds
(***************************************************************************)
(* Huawei VRP: HuaweiConnection.                                           *)
(***************************************************************************)

Huawei_sessionPreparation ==
    /\ vendor = "huawei"
    /\ \/ /\ pc = "sessionPreparation"
          /\ \/ ShellOpened /\ Goto("disablePaging")
             \/ UNCHANGED currentChannel /\ Throw("shell failed")
          /\ NoIO
       \/ /\ BestEffort("disablePaging", "screen-length 0 temporary", Goto("setTerminalWidth"))
          /\ UNCHANGED currentChannel
       \/ /\ BestEffort("setTerminalWidth", "screen-width 300",
                        Call("setBasePrompt", "sessionPreparation.end", "none"))
          /\ UNCHANGED currentChannel
       \/ /\ pc = "sessionPreparation.end"
          /\ ReturnVoid
          /\ NoIO
          /\ UNCHANGED currentChannel
    /\ UNCHANGED <<isConnected, flags, basePrompt, closed>>
    /\ SameCall

\* enterConfigMode: `system-view`, then the two best-effort screen settings
Huawei_enterConfigMode ==
    /\ vendor = "huawei"
    /\ \/ /\ pc = "enterConfigMode"
          /\ \/ Wrote("system-view") /\ Goto("enterConfigMode.read")
             \/ WriteFailed("system-view") /\ Throw("write failed")
       \/ /\ pc = "enterConfigMode.read"
          /\ \/ Got("[h]") /\ Goto("enterConfigMode.length")
             \/ ReadFailed /\ Throw("read failed")
       \/ BestEffort("enterConfigMode.length", "screen-length 0", Goto("enterConfigMode.width"))
       \/ BestEffort("enterConfigMode.width", "screen-width 300", ReturnVoid)
    /\ SameSession
    /\ SameCall

\* exitConfigMode: `return`
Huawei_exitConfigMode ==
    /\ vendor = "huawei"
    /\ \/ /\ pc = "exitConfigMode"
          /\ \/ Wrote("return") /\ Goto("exitConfigMode.read")
             \/ WriteFailed("return") /\ Throw("write failed")
       \/ /\ pc = "exitConfigMode.read"
          /\ \/ Got("<h>") /\ ReturnVoid
             \/ ReadFailed /\ Throw("read failed")
    /\ SameSession
    /\ SameCall

\* the catch block of sendConfig: the result, nothing written
Huawei_sendConfig_catch(msg) == ReturnValue(Result(args, FALSE, TRUE, output, msg))

Huawei_sendConfig ==
    /\ vendor = "huawei"
    /\ \/ /\ pc = "sendConfig"
          /\ Call("enterConfigMode", "sendConfig.loop", "sendConfig.catch")
          /\ NoIO
          /\ UNCHANGED cmds
       \/ /\ pc = "sendConfig.loop"
          /\ IF cmds = <<>>
             THEN Call("exitConfigMode", "sendConfig.return", "sendConfig.catch")
             ELSE Goto("sendConfig.write")
          /\ NoIO
          /\ UNCHANGED cmds
       \/ /\ pc = "sendConfig.write"
          /\ \/ Wrote(Head(cmds)) /\ Goto("sendConfig.read")
             \/ WriteFailed(Head(cmds)) /\ Huawei_sendConfig_catch("write failed")
          /\ UNCHANGED cmds
       \/ /\ pc = "sendConfig.read"
          /\ \/ \E a \in CommandReplies : Got(a) /\ Goto("sendConfig.loop") /\ cmds' = Tail(cmds)
             \/ ReadFailed /\ Huawei_sendConfig_catch("read failed") /\ UNCHANGED cmds
       \/ /\ pc = "sendConfig.return"
          /\ ReturnValue(Result(args, TRUE, TRUE, output, ""))
          /\ NoIO
          /\ UNCHANGED cmds
       \/ /\ pc = "sendConfig.catch"
          /\ Huawei_sendConfig_catch(error)
          /\ NoIO
          /\ UNCHANGED cmds
    /\ SameSession
    /\ SameCallButCmds

(***************************************************************************)
(* Ubiquiti EdgeRouter: UbiquitiEdgeRouterConnection.                      *)
(***************************************************************************)

EdgeRouter_sessionPreparation ==
    /\ vendor = "edgerouter"
    /\ \/ /\ pc = "sessionPreparation"
          /\ \/ /\ ShellOpened
                /\ Call("setBasePrompt",
                        IF fastMode THEN "sessionPreparation.end"
                                    ELSE "setEdgeRouterTerminalWidth",
                        "none")
             \/ /\ UNCHANGED currentChannel
                /\ Throw("shell failed")
          /\ NoIO
       \/ /\ BestEffort("setEdgeRouterTerminalWidth", "terminal width 512",
                        Goto("disableEdgeRouterPaging"))
          /\ UNCHANGED currentChannel
       \/ /\ BestEffort("disableEdgeRouterPaging", "terminal length 0", ReturnVoid)
          /\ UNCHANGED currentChannel
       \/ /\ pc = "sessionPreparation.end"
          /\ ReturnVoid
          /\ NoIO
          /\ UNCHANGED currentChannel
    /\ UNCHANGED <<isConnected, flags, basePrompt, closed>>
    /\ SameCall

EdgeRouter_enterConfigMode ==
    /\ vendor = "edgerouter"
    /\ \/ /\ pc = "enterConfigMode"
          /\ IF flags.inConfigMode THEN ReturnVoid ELSE Goto("enterConfigMode.write")
          /\ NoIO
          /\ UNCHANGED flags
       \/ /\ pc = "enterConfigMode.write"
          /\ \/ Wrote("configure") /\ Goto("enterConfigMode.read")
             \/ WriteFailed("configure") /\ Throw("Failed to enter configuration mode")
          /\ UNCHANGED flags
       \/ /\ pc = "enterConfigMode.read"
          /\ \/ \E a \in {"[edit]\nh# ", "h$ "} :
                  /\ Got(a)
                  /\ IF Includes(a, "[edit]")
                     THEN flags' = [flags EXCEPT !.inConfigMode = TRUE] /\ ReturnVoid
                     ELSE UNCHANGED flags /\ Throw("Failed to enter configuration mode")
             \/ ReadFailed /\ UNCHANGED flags /\ Throw("Failed to enter configuration mode")
    /\ UNCHANGED <<isConnected, currentChannel, basePrompt, closed>>
    /\ SameCall

\* the check exitConfigMode ends with
EdgeRouter_exitConfigMode_check(out) ==
    IF ~Includes(out, "[edit]")
    THEN flags' = [flags EXCEPT !.inConfigMode = FALSE] /\ ReturnVoid
    ELSE UNCHANGED flags /\ Throw("Failed to exit configuration mode")

EdgeRouter_exitConfigMode ==
    /\ vendor = "edgerouter"
    /\ \/ /\ pc = "exitConfigMode"
          /\ IF ~flags.inConfigMode THEN ReturnVoid ELSE Goto("exitConfigMode.write")
          /\ NoIO
          /\ UNCHANGED flags
       \/ /\ pc = "exitConfigMode.write"
          /\ \/ Wrote("exit") /\ Goto("exitConfigMode.read")
             \/ WriteFailed("exit") /\ Throw("Failed to exit configuration mode")
          /\ UNCHANGED flags
       \/ /\ pc = "exitConfigMode.read"
          /\ \/ \E a \in {"h$ ", "Cannot exit: configuration modified\n[edit]\nh# "} :
                  /\ Got(a)
                  /\ IF Includes(a, "Cannot exit: configuration modified")
                     THEN UNCHANGED flags /\ Goto("exitConfigMode.discard")
                     ELSE EdgeRouter_exitConfigMode_check(a)
             \/ ReadFailed /\ UNCHANGED flags /\ Throw("Failed to exit configuration mode")
       \/ /\ pc = "exitConfigMode.discard"
          /\ \/ Wrote("exit discard") /\ Goto("exitConfigMode.read2")
             \/ WriteFailed("exit discard") /\ Throw("Failed to exit configuration mode")
          /\ UNCHANGED flags
       \/ /\ pc = "exitConfigMode.read2"
          /\ \/ \E a \in {"h$ ", "[edit]\nh# "} : Got(a) /\ EdgeRouter_exitConfigMode_check(a)
             \/ ReadFailed /\ UNCHANGED flags /\ Throw("Failed to exit configuration mode")
    /\ UNCHANGED <<isConnected, currentChannel, basePrompt, closed>>
    /\ SameCall

\* the check sendConfig makes on the answer to a configuration command
EdgeRouter_configError(out) == Includes(out, "Invalid") \/ Includes(out, "Error")

\* the check sendConfig makes on the answer to commit
EdgeRouter_commitError(out) ==
    Includes(out, "Failed to generate committed config") \/ Includes(out, "Commit failed")

EdgeRouter_sendConfig ==
    /\ vendor = "edgerouter"
    /\ \/ /\ pc = "sendConfig"
          /\ IF ~isConnected \/ ~currentChannel
             THEN Catch("sendConfig.catch", "Not connected to device")
             ELSE Call("enterConfigMode", "sendConfig.loop", "sendConfig.catch")
          /\ NoIO
          /\ UNCHANGED cmds
       \/ /\ pc = "sendConfig.loop"
          /\ Goto(IF cmds = <<>> THEN "sendConfig.commit" ELSE "sendConfig.write")
          /\ NoIO
          /\ UNCHANGED cmds
       \/ /\ pc = "sendConfig.write"
          /\ \/ Wrote(Head(cmds)) /\ Goto("sendConfig.read")
             \/ WriteFailed(Head(cmds)) /\ Catch("sendConfig.catch", "write failed")
          /\ UNCHANGED cmds
       \/ /\ pc = "sendConfig.read"
          /\ \/ \E a \in CommandReplies :
                  /\ Got(a)
                  /\ IF EdgeRouter_configError(a)
                     THEN Catch("sendConfig.catch", "Configuration error") /\ UNCHANGED cmds
                     ELSE Goto("sendConfig.loop") /\ cmds' = Tail(cmds)
             \/ ReadFailed /\ Catch("sendConfig.catch", "read failed") /\ UNCHANGED cmds
       \/ /\ pc = "sendConfig.commit"
          /\ \/ Wrote("commit") /\ Goto("sendConfig.commit.read")
             \/ WriteFailed("commit") /\ Catch("sendConfig.catch", "write failed")
          /\ UNCHANGED cmds
       \/ /\ pc = "sendConfig.commit.read"
          /\ \/ \E a \in {"[edit]\nh# ", "Commit failed\n[edit]\nh# "} :
                  /\ Got(a)
                  /\ IF EdgeRouter_commitError(a)
                     THEN Catch("sendConfig.catch", "Commit failed")
                     ELSE Call("exitConfigMode", "sendConfig.return", "sendConfig.catch")
             \/ ReadFailed /\ Catch("sendConfig.catch", "read failed")
          /\ UNCHANGED cmds
       \/ /\ pc = "sendConfig.return"
          /\ ReturnValue(Success(args, output))
          /\ NoIO
          /\ UNCHANGED cmds
       \/ /\ pc = "sendConfig.catch"
          /\ IF flags.inConfigMode
             THEN TryCall("exitConfigMode", "sendConfig.failed")
             ELSE ReturnValue(Failure(args, error))
          /\ NoIO
          /\ UNCHANGED cmds
       \/ /\ pc = "sendConfig.failed"
          /\ ReturnValue(Failure(args, error))
          /\ NoIO
          /\ UNCHANGED cmds
    /\ SameSession
    /\ SameCallButCmds

(***************************************************************************)
(* Versa FlexVNF: VersaConnection.                                         *)
(***************************************************************************)

\* maxAttempts of enterCliMode
maxAttempts == 50

\* /\$\s*$/.test(output.trim())
EndsInDollar(out) ==
    LET t == Trim(out) IN Len(t) > 0 /\ SubSeq(t, Len(t), Len(t)) = "$"

\* what the device shows after the Return enterCliMode sends: the boot shell,
\* the FlexVNF CLI (whose prompt names the user), a bare CLI prompt, nothing
Versa_ProbeAnswers == {"admin@h:~$ ", "admin@h-cli> ", "h> ", ""}

Versa_sessionPreparation ==
    /\ vendor = "versa"
    /\ \/ /\ pc = "sessionPreparation"
          /\ \/ ShellOpened /\ Call("enterCliMode", "sessionPreparation.prompt", "none")
             \/ UNCHANGED currentChannel /\ Throw("shell failed")
       \/ /\ pc = "sessionPreparation.prompt"
          /\ Call("setBasePrompt", "sessionPreparation.parallel", "none")
          /\ UNCHANGED currentChannel
    /\ NoIO
    /\ UNCHANGED <<isConnected, flags, basePrompt, closed>>
    /\ SameCall

\* enterCliMode: probe the prompt up to maxAttempts times, `cli` at a shell
Versa_enterCliMode ==
    /\ vendor = "versa"
    /\ \/ /\ pc = "enterCliMode"
          /\ \/ Wrote(returnChar) /\ Goto("enterCliMode.read")
             \/ WriteFailed(returnChar) /\ Throw("write failed")
          /\ UNCHANGED attempts
       \/ /\ pc = "enterCliMode.read"
          /\ \/ \E a \in Versa_ProbeAnswers :
                  /\ Got(a)
                  /\ IF Includes(a, "admin@") \/ EndsInDollar(a)
                     THEN Goto("enterCliMode.cli") /\ UNCHANGED attempts
                     ELSE IF Includes(a, ">") \/ Includes(a, "%")
                     THEN ReturnVoid /\ UNCHANGED attempts
                     ELSE /\ attempts' = attempts + 1
                          /\ IF attempts + 1 < maxAttempts
                             THEN Goto("enterCliMode")
                             ELSE ReturnVoid
             \/ ReadFailed /\ Throw("read failed") /\ UNCHANGED attempts
       \/ /\ pc = "enterCliMode.cli"
          /\ \/ Wrote("cli") /\ Goto("enterCliMode.cli.read")
             \/ WriteFailed("cli") /\ Throw("write failed")
          /\ UNCHANGED attempts
       \/ /\ pc = "enterCliMode.cli.read"
          /\ \/ Got("") /\ ReturnVoid
             \/ ReadFailed /\ Throw("read failed")
          /\ UNCHANGED attempts
    /\ SameSession
    /\ UNCHANGED <<vendor, fastMode, op, args, cmds, par, conn>>

\* the two setup tasks sessionPreparation hands to Promise.all: each runs up
\* to its first await when it is called, so both writes are made before
\* either answer is read
Versa_parallelSetup ==
    /\ vendor = "versa"
    /\ \/ /\ pc = "sessionPreparation.parallel"
          /\ \E okW, okP \in BOOLEAN :
                /\ chan' = chan \o
                      <<Ev(IF okW /\ currentChannel THEN "w" ELSE "wx", "set screen width 511"),
                        Ev(IF okP /\ currentChannel THEN "w" ELSE "wx", "set screen length 0")>>
                /\ par' = [width  |-> IF okW /\ currentChannel THEN "read" ELSE "done",
                           paging |-> IF okP /\ currentChannel THEN "read" ELSE "done"]
          /\ Goto("sessionPreparation.join")
       \* setTerminalWidth resumes with the answer to its command
       \/ /\ pc = "sessionPreparation.join"
          /\ par.width = "read"
          /\ chan' \in {Append(chan, Ev("r", "")), Append(chan, Ev("rx", ""))}
          /\ par' = [par EXCEPT !.width = "done"]
          /\ Goto("sessionPreparation.join")
       \* disablePaging resumes with the answer to its command
       \/ /\ pc = "sessionPreparation.join"
          /\ par.paging = "read"
          /\ chan' \in {Append(chan, Ev("r", "")), Append(chan, Ev("rx", ""))}
          /\ par' = [par EXCEPT !.paging = "done"]
          /\ Goto("sessionPreparation.join")
       \* both tasks have settled: Promise.all resolves
       \/ /\ pc = "sessionPreparation.join"
          /\ par.width = "done" /\ par.paging = "done"
          /\ par' = NoPar
          /\ UNCHANGED chan
          /\ ReturnVoid
    /\ UNCHANGED output
    /\ SameSession
    /\ UNCHANGED <<vendor, fastMode, op, args, cmds, attempts, conn>>

\* a boolean handed to the caller
Bool(b) == [kind |-> "bool", value |-> b]

Versa_checkConfigMode ==
    /\ vendor = "versa"
    /\ \/ /\ pc = "checkConfigMode"
          /\ \/ Wrote(returnChar) /\ Goto("checkConfigMode.read")
             \/ WriteFailed(returnChar) /\ Throw("write failed")
       \/ /\ pc = "checkConfigMode.read"
          /\ \/ \E a \in {"h> ", "[edit]\nh% "} : Got(a) /\ ReturnValue(Bool(Includes(a, "]")))
             \/ ReadFailed /\ Throw("read failed")
    /\ SameSession
    /\ SameCall

Versa_enterConfigMode ==
    /\ vendor = "versa"
    /\ \/ /\ pc = "enterConfigMode"
          /\ Call("checkConfigMode", "enterConfigMode.checked", "none")
          /\ NoIO
          /\ UNCHANGED flags
       \/ /\ pc = "enterConfigMode.checked"
          /\ IF ret.value
             THEN flags' = [flags EXCEPT !.inConfigMode = TRUE] /\ ReturnVoid
             ELSE UNCHANGED flags /\ Goto("enterConfigMode.write")
          /\ NoIO
       \/ /\ pc = "enterConfigMode.write"
          /\ \/ Wrote("configure") /\ Goto("enterConfigMode.read")
             \/ WriteFailed("configure") /\ Throw("Failed to enter configuration mode")
          /\ UNCHANGED flags
       \/ /\ pc = "enterConfigMode.read"
          /\ \/ \E a \in {"[edit]\nh% ", "h> "} :
                  /\ Got(a)
                  /\ IF ~Includes(a, "]")
                     THEN UNCHANGED flags /\ Throw("Failed to enter configuration mode")
                     ELSE flags' = [flags EXCEPT !.inConfigMode = TRUE] /\ ReturnVoid
             \/ ReadFailed /\ UNCHANGED flags /\ Throw("Failed to enter configuration mode")
    /\ UNCHANGED <<isConnected, currentChannel, basePrompt, closed>>
    /\ SameCall

\* errorPatterns.some(pattern => pattern.test(output))
Versa_errorPatterns(out) ==
    \E p \in {"invalid command", "syntax error", "unknown command", "error:", "failed"} :
        IncludesIgnoreCase(out, p)

\* sendConfig: enter configuration mode, send the commands, return
Versa_sendConfig ==
    /\ vendor = "versa"
    /\ \/ /\ pc = "sendConfig"
          /\ Call("enterConfigMode", "sendConfig.loop", "sendConfig.catch")
          /\ NoIO
          /\ UNCHANGED cmds
       \/ /\ pc = "sendConfig.loop"
          /\ IF cmds = <<>>
             THEN ReturnValue(Result(args, TRUE, TRUE, output, ""))
             ELSE Goto("sendConfig.write")
          /\ NoIO
          /\ UNCHANGED cmds
       \/ /\ pc = "sendConfig.write"
          /\ \/ Wrote(Head(cmds)) /\ Goto("sendConfig.read")
             \/ /\ WriteFailed(Head(cmds))
                /\ ReturnValue(Result(args, FALSE, TRUE, output, "write failed"))
          /\ UNCHANGED cmds
       \/ /\ pc = "sendConfig.read"
          /\ \/ \E a \in CommandReplies :
                  /\ Got(a)
                  /\ IF Versa_errorPatterns(a)
                     THEN /\ ReturnValue(Result(args, FALSE, TRUE, a, "Error in command"))
                          /\ UNCHANGED cmds
                     ELSE Goto("sendConfig.loop") /\ cmds' = Tail(cmds)
             \/ /\ ReadFailed
                /\ ReturnValue(Result(args, FALSE, TRUE, output, "Timeout waiting for prompt"))
                /\ UNCHANGED cmds
       \/ /\ pc = "sendConfig.catch"
          /\ ReturnValue(Failure(args, error))
          /\ NoIO
          /\ UNCHANGED cmds
    /\ SameSession
    /\ SameCallButCmds

(***************************************************************************)
(* HP ProCurve (HPProcurveConnection) and Ubiquiti UniFi                   *)
(* (UbiquitiUnifiSwitchConnection over UbiquitiEdgeSwitchConnection).      *)
(***************************************************************************)

\* the classes whose configuration prompt is recognised by )#
SwitchVendors == {"procurve", "unifi", "edgeswitch", "dell"}

\* the command that enters configuration mode
ConfigureCommand ==
    CASE vendor \in {"procurve", "arista"} -> "configure terminal"
      [] vendor = "aruba" -> "configure term"
      [] OTHER -> "configure"

\* the prompts a device shows in privileged and in configuration mode
PrivilegedPrompt == IF vendor = "aruba" THEN "(h) # " ELSE "h# "

ConfigPrompt ==
    CASE vendor = "arista" -> "h(s1)(config)# "
      [] vendor = "aruba" -> "(h) (config) # "
      [] OTHER -> "h(config)# "

PromptAnswers == {PrivilegedPrompt, ConfigPrompt}

\* the test checkConfigMode and enterConfigMode make on the chunk they read
ShowsConfigPrompt(a) ==
    CASE vendor = "arista" -> Includes(RemoveAll(RemoveAll(a, "(s1)"), "(s2)"), "(config)#")
      [] vendor = "aruba" -> Includes(a, "(config) #")
      [] OTHER -> Includes(a, ")#")

\* the test exitConfigMode makes on the chunk it read
ShowsPrivilegedPrompt(a) ==
    Includes(a, "#") /\ ~(IF vendor = "aruba" THEN Includes(a, "(config) #") ELSE Includes(a, ")#"))

HP_sessionPreparation_prompt ==
    Call("setBasePrompt",
         IF fastMode THEN "sessionPreparation.end" ELSE "sessionPreparation.enable",
         "none")

HP_sessionPreparation ==
    /\ vendor = "procurve"
    /\ \/ /\ pc = "sessionPreparation"
          /\ \/ ShellOpened /\ Goto("handleContinuePrompt")
             \/ UNCHANGED currentChannel /\ Throw("shell failed")
          /\ NoIO
       \/ /\ pc = "handleContinuePrompt"
          /\ \/ \E a \in {"", "Press any key to continue"} :
                  /\ Got(a)
                  /\ IF Includes(ToLowerCase(a), "any key to continue")
                     THEN Goto("handleContinuePrompt.key")
                     ELSE HP_sessionPreparation_prompt
             \/ ReadFailed /\ HP_sessionPreparation_prompt
          /\ UNCHANGED currentChannel
       \/ /\ pc = "handleContinuePrompt.key"
          /\ \/ Wrote(returnChar) /\ Goto("handleContinuePrompt.read2")
             \/ WriteFailed(returnChar) /\ HP_sessionPreparation_prompt
          /\ UNCHANGED currentChannel
       \/ /\ pc = "handleContinuePrompt.read2"
          /\ \/ Got("")
             \/ ReadFailed
          /\ HP_sessionPreparation_prompt
          /\ UNCHANGED currentChannel
       \/ /\ pc = "sessionPreparation.enable"
          /\ Call("checkAndEnterEnableMode", "setTerminalWidth", "none")
          /\ NoIO
          /\ UNCHANGED currentChannel
       \/ /\ BestEffort("setTerminalWidth", "terminal width 511", Goto("disableHPPaging"))
          /\ UNCHANGED currentChannel
       \/ /\ BestEffort("disableHPPaging", "no page", ReturnVoid)
          /\ UNCHANGED currentChannel
       \/ /\ pc = "sessionPreparation.end"
          /\ ReturnVoid
          /\ NoIO
          /\ UNCHANGED currentChannel
    /\ UNCHANGED <<isConnected, flags, basePrompt, closed>>
    /\ SameCall

\* checkConfigMode of HP ProCurve, EdgeSwitch, Arista and Aruba OS: does the
\* device show its configuration prompt
Switch_checkConfigMode ==
    /\ vendor \in EnableVendors
    /\ \/ /\ pc = "checkConfigMode"
          /\ \/ Wrote(returnChar) /\ Goto("checkConfigMode.read")
             \/ WriteFailed(returnChar) /\ ReturnValue(Bool(FALSE))
       \/ /\ pc = "checkConfigMode.read"
          /\ \/ \E a \in PromptAnswers : Got(a) /\ ReturnValue(Bool(ShowsConfigPrompt(a)))
             \/ ReadFailed /\ ReturnValue(Bool(FALSE))
    /\ SameSession
    /\ SameCall

\* enterConfigMode of HP ProCurve, EdgeSwitch, Arista and Aruba OS
Switch_enterConfigMode ==
    /\ vendor \in EnableVendors
    /\ \/ /\ pc = "enterConfigMode"
          /\ Call("checkConfigMode", "enterConfigMode.checked", "none")
          /\ NoIO
          /\ UNCHANGED flags
       \/ /\ pc = "enterConfigMode.checked"
          /\ IF ret.value
             THEN flags' = [flags EXCEPT !.inConfigMode = TRUE] /\ ReturnVoid
             ELSE /\ UNCHANGED flags
                  /\ IF ~flags.inEnableMode
                     THEN Call("enterEnableMode", "enterConfigMode.write", "none")
                     ELSE Goto("enterConfigMode.write")
          /\ NoIO
       \/ /\ pc = "enterConfigMode.write"
          /\ \/ Wrote(ConfigureCommand) /\ Goto("enterConfigMode.read")
             \/ WriteFailed(ConfigureCommand) /\ Throw("Failed to enter configuration mode")
          /\ UNCHANGED flags
       \/ /\ pc = "enterConfigMode.read"
          /\ \/ \E a \in PromptAnswers :
                  /\ Got(a)
                  /\ IF ShowsConfigPrompt(a)
                     THEN flags' = [flags EXCEPT !.inConfigMode = TRUE] /\ ReturnVoid
                     ELSE UNCHANGED flags /\ Throw("Failed to enter configuration mode")
             \/ ReadFailed /\ UNCHANGED flags /\ Throw("Failed to enter configuration mode")
    /\ UNCHANGED <<isConnected, currentChannel, basePrompt, closed>>
    /\ SameCall

\* exitConfigMode of HP ProCurve and of EdgeSwitch
Switch_exitConfigMode ==
    /\ vendor \in SwitchVendors
    /\ \/ /\ pc = "exitConfigMode"
          /\ IF ~flags.inConfigMode THEN ReturnVoid ELSE Goto("exitConfigMode.write")
          /\ NoIO
          /\ UNCHANGED flags
       \/ /\ pc = "exitConfigMode.write"
          /\ \/ Wrote("exit") /\ Goto("exitConfigMode.read")
             \/ WriteFailed("exit") /\ Throw("Failed to exit configuration mode")
          /\ UNCHANGED flags
       \/ /\ pc = "exitConfigMode.read"
          /\ \/ \E a \in PromptAnswers :
                  /\ Got(a)
                  /\ IF ShowsPrivilegedPrompt(a)
                     THEN flags' = [flags EXCEPT !.inConfigMode = FALSE] /\ ReturnVoid
                     ELSE UNCHANGED flags /\ Throw("Failed to exit configuration mode")
             \/ ReadFailed /\ UNCHANGED flags /\ Throw("Failed to exit configuration mode")
    /\ UNCHANGED <<isConnected, currentChannel, basePrompt, closed>>
    /\ SameCall

\* the guard disconnect starts with
HP_disconnect_guard == ~isConnected

\* the answer to "Do you want to save"
HP_saveReply_yes == "y"

HP_saveReply == "n"

\* output.toLowerCase().includes('do you want to save')
AsksToSave(out) == Includes(ToLowerCase(out), "do you want to save")

\* output.toLowerCase().includes('do you want to log out')
AsksToLogOut(out) == Includes(ToLowerCase(out), "do you want to log out")

\* disconnect: leave configuration mode, `logout` and its prompts, then the
\* inherited disconnect whatever happened
HP_disconnect ==
    /\ vendor = "procurve"
    /\ \/ /\ pc = "disconnect"
          /\ IF HP_disconnect_guard
             THEN ReturnVoid
             ELSE IF flags.inConfigMode
             THEN Call("exitConfigMode", "disconnect.logout", "super.disconnect")
             ELSE Goto("disconnect.logout")
          /\ NoIO
       \/ /\ pc = "disconnect.logout"
          /\ \/ Wrote("logout") /\ Goto("disconnect.read")
             \/ WriteFailed("logout") /\ Goto("super.disconnect")
       \/ /\ pc = "disconnect.read"
          /\ \/ \E a \in {"", "Do you want to save current configuration [y/n]? ",
                          "Do you want to log out [y/n]? "} :
                  /\ Got(a)
                  /\ IF AsksToSave(a)
                     THEN Goto("disconnect.n")
                     ELSE IF AsksToLogOut(a)
                     THEN Goto("disconnect.y")
                     ELSE Goto("super.disconnect")
             \/ ReadFailed /\ Goto("super.disconnect")
       \/ /\ pc = "disconnect.n"
          /\ \/ Wrote(HP_saveReply) /\ Goto("disconnect.read2")
             \/ WriteFailed(HP_saveReply) /\ Goto("super.disconnect")
       \/ /\ pc = "disconnect.read2"
          /\ \/ \E a \in {"", "Do you want to log out [y/n]? "} :
                  /\ Got(a)
                  /\ IF AsksToLogOut(a)
                     THEN Goto("disconnect.y")
                     ELSE Goto("super.disconnect")
             \/ ReadFailed /\ Goto("super.disconnect")
       \/ /\ pc = "disconnect.y"
          /\ \/ Wrote("y")
             \/ WriteFailed("y")
          /\ Goto("super.disconnect")
    /\ SameSession
    /\ SameCall

Unifi_sessionPreparation ==
    /\ vendor = "unifi"
    /\ \/ /\ pc = "sessionPreparation"
          /\ \/ ShellOpened /\ Call("setBasePrompt", "sessionPreparation.telnet", "none")
             \/ UNCHANGED currentChannel /\ Throw("shell failed")
          /\ NoIO
       \/ /\ pc = "sessionPreparation.telnet"
          /\ Call("enterSwitchCli", "sessionPreparation.cli", "none")
          /\ NoIO
          /\ UNCHANGED currentChannel
       \/ /\ pc = "sessionPreparation.cli"
          /\ Call("setBasePrompt",
                  IF fastMode THEN "sessionPreparation.end" ELSE "sessionPreparation.enable",
                  "none")
          /\ NoIO
          /\ UNCHANGED currentChannel
       \/ /\ pc = "sessionPreparation.enable"
          /\ Call("checkAndEnterEnableMode", "disablePaging", "none")
          /\ NoIO
          /\ UNCHANGED currentChannel
       \* CiscoConnection.disablePaging
       \/ /\ pc = "disablePaging"
          /\ \/ Wrote("terminal length 0") /\ Goto("disablePaging.read")
             \/ WriteFailed("terminal length 0") /\ Throw("write failed")
          /\ UNCHANGED currentChannel
       \/ /\ pc = "disablePaging.read"
          /\ \/ Got("") /\ ReturnVoid
             \/ ReadFailed /\ Throw("read failed")
          /\ UNCHANGED currentChannel
       \/ /\ pc = "sessionPreparation.end"
          /\ ReturnVoid
          /\ NoIO
          /\ UNCHANGED currentChannel
    /\ UNCHANGED <<isConnected, flags, basePrompt, closed>>
    /\ SameCall

\* enterSwitchCli: `telnet localhost`, expecting the (UBNT) prompt
Unifi_enterSwitchCli ==
    /\ vendor = "unifi"
    /\ \/ /\ pc = "enterSwitchCli"
          /\ \/ Wrote("telnet localhost") /\ Goto("enterSwitchCli.read")
             \/ WriteFailed("telnet localhost") /\ Throw("Failed to telnet to switch CLI")
          /\ UNCHANGED flags
       \/ /\ pc = "enterSwitchCli.read"
          /\ \/ \E a \in {"(UBNT) >", "sh: telnet: not found"} :
                  /\ Got(a)
                  /\ IF Includes(a, "(UBNT)") \/ Includes(a, ">")
                     THEN flags' = [flags EXCEPT !.inTelnetSession = TRUE] /\ ReturnVoid
                     ELSE UNCHANGED flags /\ Throw("Failed to telnet to switch CLI")
             \/ ReadFailed /\ UNCHANGED flags /\ Throw("Failed to telnet to switch CLI")
    /\ UNCHANGED <<isConnected, currentChannel, basePrompt, closed>>
    /\ SameCall

\* exitSwitchCli: leave configuration mode and the telnet session, best effort
Unifi_exitSwitchCli ==
    /\ vendor = "unifi"
    /\ \/ /\ pc = "exitSwitchCli"
          /\ IF ~flags.inTelnetSession
             THEN ReturnVoid
             ELSE IF flags.inConfigMode
             THEN Call("exitConfigMode", "exitSwitchCli.exit", "exitSwitchCli.catch")
             ELSE Goto("exitSwitchCli.exit")
          /\ NoIO
          /\ UNCHANGED flags
       \/ /\ pc = "exitSwitchCli.exit"
          /\ \/ Wrote("exit") /\ Goto("exitSwitchCli.read")
             \/ WriteFailed("exit") /\ ReturnVoid
          /\ UNCHANGED flags
       \/ /\ pc = "exitSwitchCli.read"
          /\ \/ Got("") /\ flags' = [flags EXCEPT !.inTelnetSession = FALSE]
             \/ ReadFailed /\ UNCHANGED flags
          /\ ReturnVoid
       \/ /\ pc = "exitSwitchCli.catch"
          /\ ReturnVoid
          /\ NoIO
          /\ UNCHANGED flags
    /\ UNCHANGED <<isConnected, currentChannel, basePrompt, closed>>
    /\ SameCall

\* the guard disconnect starts with
Unifi_disconnect_guard == ~isConnected

\* disconnect: leave the telnet session, then the inherited disconnect
Unifi_disconnect ==
    /\ vendor = "unifi"
    /\ pc = "disconnect"
    /\ IF Unifi_disconnect_guard
       THEN ReturnVoid
       ELSE TryCall("exitSwitchCli", "super.disconnect")
    /\ NoIO
    /\ SameSession
    /\ SameCall

(***************************************************************************)
(* Arista EOS (AristaConnection), Aruba OS (ArubaOsConnection) and         *)
(* Ubiquiti EdgeSwitch (UbiquitiEdgeSwitchConnection): session             *)
(* preparation, leaving configuration mode, leaving enable mode, saving.   *)
(***************************************************************************)

\* a read whose chunk is appended to what was read before (output += chunk)
GotMore(a) == currentChannel /\ chan' = Append(chan, Ev("r", a)) /\ output' = output \o a

Arista_sessionPreparation ==
    /\ vendor = "arista"
    /\ \/ /\ pc = "sessionPreparation"
          /\ \/ /\ ShellOpened
                /\ IF fastMode
                   THEN Call("setBasePrompt", "sessionPreparation.end", "none")
                   ELSE Goto("setAristaTerminalWidth")
             \/ UNCHANGED currentChannel /\ Throw("shell failed")
          /\ NoIO
       \/ /\ BestEffort("setAristaTerminalWidth", "terminal width 511",
                        Goto("disableAristaPaging"))
          /\ UNCHANGED currentChannel
       \/ /\ BestEffort("disableAristaPaging", "terminal length 0",
                        Call("setBasePrompt", "sessionPreparation.enable", "none"))
          /\ UNCHANGED currentChannel
       \/ /\ pc = "sessionPreparation.enable"
          /\ Call("checkAndEnterEnableMode", "sessionPreparation.end", "none")
          /\ NoIO
          /\ UNCHANGED currentChannel
       \/ /\ pc = "sessionPreparation.end"
          /\ ReturnVoid
          /\ NoIO
          /\ UNCHANGED currentChannel
    /\ UNCHANGED <<isConnected, flags, basePrompt, closed>>
    /\ SameCall

Aruba_sessionPreparation ==
    /\ vendor = "aruba"
    /\ \/ /\ pc = "sessionPreparation"
          /\ \/ /\ ShellOpened
                /\ Call("setBasePrompt",
                        IF fastMode THEN "sessionPreparation.end"
                        ELSE "sessionPreparation.enable",
                        "none")
             \/ UNCHANGED currentChannel /\ Throw("shell failed")
          /\ NoIO
       \/ /\ pc = "sessionPreparation.enable"
          /\ Call("checkAndEnterEnableMode", "disableArubaPaging", "none")
          /\ NoIO
          /\ UNCHANGED currentChannel
       \/ /\ BestEffort("disableArubaPaging", "no paging", ReturnVoid)
          /\ UNCHANGED currentChannel
       \/ /\ pc = "sessionPreparation.end"
          /\ ReturnVoid
          /\ NoIO
          /\ UNCHANGED currentChannel
    /\ UNCHANGED <<isConnected, flags, basePrompt, closed>>
    /\ SameCall

EdgeSwitch_sessionPreparation ==
    /\ vendor = "edgeswitch"
    /\ pc \in {"sessionPreparation", "sessionPreparation.enable", "sessionPreparation.prompt2",
               "sessionPreparation.end"}
    /\ \/ /\ pc = "sessionPreparation"
          /\ \/ /\ ShellOpened
                /\ Call("setBasePrompt",
                        IF fastMode THEN "sessionPreparation.end"
                        ELSE "sessionPreparation.enable",
                        "none")
             \/ UNCHANGED currentChannel /\ Throw("shell failed")
       \/ /\ pc = "sessionPreparation.enable"
          /\ Call("checkAndEnterEnableMode", "sessionPreparation.prompt2", "none")
          /\ UNCHANGED currentChannel
       \/ /\ pc = "sessionPreparation.prompt2"
          /\ Call("setBasePrompt", "setTerminalWidth", "none")
          /\ UNCHANGED currentChannel
       \/ /\ pc = "sessionPreparation.end"
          /\ ReturnVoid
          /\ UNCHANGED currentChannel
    /\ NoIO
    /\ UNCHANGED <<isConnected, flags, basePrompt, closed>>
    /\ SameCall

\* setTerminalWidth and disablePaging of CiscoConnection, as EdgeSwitch's
\* standard session preparation ends with them
Cisco_terminalSetup ==
    /\ vendor = "edgeswitch"
    /\ \/ /\ pc = "setTerminalWidth"
          /\ \/ Wrote("terminal width 511") /\ Goto("setTerminalWidth.read")
             \/ WriteFailed("terminal width 511") /\ Throw("write failed")
       \/ /\ pc = "setTerminalWidth.read"
          /\ \/ Got("") /\ Goto("disablePaging")
             \/ ReadFailed /\ Throw("read failed")
       \/ /\ pc = "disablePaging"
          /\ \/ Wrote("terminal length 0") /\ Goto("disablePaging.read")
             \/ WriteFailed("terminal length 0") /\ Throw("write failed")
       \/ /\ pc = "disablePaging.read"
          /\ \/ Got("") /\ ReturnVoid
             \/ ReadFailed /\ Throw("read failed")
    /\ SameSession
    /\ SameCall

\* exitConfigMode of Aruba OS: `exit`, then `end` when that did not help
Aruba_exitConfigMode ==
    /\ vendor = "aruba"
    /\ \/ /\ pc = "exitConfigMode"
          /\ IF ~flags.inConfigMode THEN ReturnVoid ELSE Goto("exitConfigMode.write")
          /\ NoIO
          /\ UNCHANGED flags
       \/ /\ pc = "exitConfigMode.write"
          /\ \/ Wrote("exit") /\ Goto("exitConfigMode.read")
             \/ WriteFailed("exit") /\ Throw("Failed to exit configuration mode")
          /\ UNCHANGED flags
       \/ /\ pc = "exitConfigMode.read"
          /\ \/ \E a \in PromptAnswers :
                  /\ Got(a)
                  /\ IF ShowsPrivilegedPrompt(a)
                     THEN flags' = [flags EXCEPT !.inConfigMode = FALSE] /\ ReturnVoid
                     ELSE UNCHANGED flags /\ Goto("exitConfigMode.end")
             \/ ReadFailed /\ UNCHANGED flags /\ Throw("Failed to exit configuration mode")
       \/ /\ pc = "exitConfigMode.end"
          /\ \/ Wrote("end") /\ Goto("exitConfigMode.read2")
             \/ WriteFailed("end") /\ Throw("Failed to exit configuration mode")
          /\ UNCHANGED flags
       \/ /\ pc = "exitConfigMode.read2"
          /\ \/ \E a \in PromptAnswers :
                  /\ Got(a)
                  /\ IF ShowsPrivilegedPrompt(a)
                     THEN flags' = [flags EXCEPT !.inConfigMode = FALSE] /\ ReturnVoid
                     ELSE UNCHANGED flags /\ Throw("Failed to exit configuration mode")
             \/ ReadFailed /\ UNCHANGED flags /\ Throw("Failed to exit configuration mode")
    /\ UNCHANGED <<isConnected, currentChannel, basePrompt, closed>>
    /\ SameCall

\* exitConfigMode of CiscoConnection, which Arista keeps: `end`, confirmed
\* by a prompt that is no configuration prompt
Cisco_exitConfigMode ==
    /\ vendor = "arista"
    /\ \/ /\ pc = "exitConfigMode"
          /\ IF ~flags.inConfigMode THEN ReturnVoid ELSE Goto("exitConfigMode.write")
          /\ NoIO
          /\ UNCHANGED flags
       \/ /\ pc = "exitConfigMode.write"
          /\ \/ Wrote("end") /\ Goto("exitConfigMode.read")
             \/ WriteFailed("end") /\ Throw("Failed to exit configuration mode")
          /\ UNCHANGED flags
       \/ /\ pc = "exitConfigMode.read"
          /\ \/ \E a \in PromptAnswers :
                  /\ Got(a)
                  /\ IF ~ShowsConfigPrompt(a)
                     THEN flags' = [flags EXCEPT !.inConfigMode = FALSE] /\ ReturnVoid
                     ELSE UNCHANGED flags /\ Throw("Failed to exit configuration mode")
             \/ ReadFailed /\ UNCHANGED flags /\ Throw("Failed to exit configuration mode")
    /\ UNCHANGED <<isConnected, currentChannel, basePrompt, closed>>
    /\ SameCall

\* exitEnableMode of EdgeSwitch: `exit`, whatever mode the session is in
EdgeSwitch_exitEnableMode ==
    /\ vendor = "edgeswitch"
    /\ \/ /\ pc = "exitEnableMode"
          /\ IF ~flags.inEnableMode
             THEN ReturnValue(Result("exit", TRUE, FALSE, "Already in user mode", ""))
             ELSE Goto("exitEnableMode.write")
          /\ NoIO
          /\ UNCHANGED flags
       \/ /\ pc = "exitEnableMode.write"
          /\ \/ Wrote("exit") /\ Goto("exitEnableMode.read")
             \/ WriteFailed("exit") /\ ReturnValue(Failure("exit", "write failed"))
          /\ UNCHANGED flags
       \/ /\ pc = "exitEnableMode.read"
          /\ \/ \E a \in {"h> ", "h# "} :
                  /\ Got(a)
                  /\ flags' = [flags EXCEPT !.inEnableMode = FALSE]
                  /\ ReturnValue(Result("exit", TRUE, FALSE, a, ""))
             \/ ReadFailed /\ UNCHANGED flags /\ ReturnValue(Failure("exit", "read failed"))
    /\ UNCHANGED <<isConnected, currentChannel, basePrompt, closed>>
    /\ SameCall

\* what EdgeSwitch answers to `write memory`
EdgeSwitch_SaveAnswers == {"Are you sure you want to save? (y/n) ", "Config saved\nh# "}

\* saveConfig of EdgeSwitch: `write memory`, answering its confirmation
EdgeSwitch_saveConfig ==
    /\ vendor = "edgeswitch"
    /\ \/ /\ pc = "saveConfig"
          /\ IF ~isConnected \/ ~currentChannel
             THEN ReturnValue(Failure("write memory", "Not connected to device"))
             ELSE IF ~flags.inEnableMode
             THEN Call("enterEnableMode", "saveConfig.write", "saveConfig.catch")
             ELSE Goto("saveConfig.write")
          /\ NoIO
       \/ /\ pc = "saveConfig.write"
          /\ \/ Wrote("write memory") /\ Goto("saveConfig.read")
             \/ WriteFailed("write memory") /\ Catch("saveConfig.catch", "write failed")
       \/ /\ pc = "saveConfig.read"
          /\ \/ \E a \in EdgeSwitch_SaveAnswers :
                  /\ Got(a)
                  /\ IF Includes(ToLowerCase(a), "are you sure")
                     THEN Goto("saveConfig.y")
                     ELSE ReturnValue(Success("write memory", a))
             \/ ReadFailed /\ Catch("saveConfig.catch", "read failed")
       \/ /\ pc = "saveConfig.y"
          /\ \/ Wrote("y") /\ Goto("saveConfig.read2")
             \/ WriteFailed("y") /\ Catch("saveConfig.catch", "write failed")
       \/ /\ pc = "saveConfig.read2"
          /\ \/ \E a \in {"Config saved\nh# "} :
                  /\ GotMore(a)
                  /\ ReturnValue(Success("write memory", output \o a))
             \/ ReadFailed /\ Catch("saveConfig.catch", "read failed")
       \/ /\ pc = "saveConfig.catch"
          /\ ReturnValue(Failure("write memory", error))
          /\ NoIO
    /\ SameSession
    /\ SameCall
(***************************************************************************)
(* Commands that may be answered by a confirmation dialog: saveConfig and  *)
(* rebootDevice of Huawei, rebootDevice of MikroTik and of Palo Alto.      *)
(***************************************************************************)

\* s.endsWith(p)
EndsWith(s, p) == Len(s) >= Len(p) /\ SubSeq(s, Len(s) - Len(p) + 1, Len(s)) = p

\* s without its white space
StripSpaces(s) == RemoveAll(RemoveAll(RemoveAll(RemoveAll(s, " "), "\n"), "\r"), "\t")

\* HuaweiConnection.containsYesNoPrompt: /\[\s*Y\s*\/\s*N\s*\]\s*:?\s*$/i;
\* its two other patterns end the same way
containsYesNoPrompt(s) ==
    /\ s # ""
    /\ LET u == StripSpaces(ToLowerCase(s))
       IN  EndsWith(u, "[y/n]") \/ EndsWith(u, "[y/n]:")

\* the mistaken test that takes no chunk for a confirmation
Confirms_never(s) == FALSE

\* a command whose first chunk may be a confirmation dialog: write cmd, read;
\* when Confirms(chunk), write the reply and read on; Declined(chunk) is what
\* the handler does with a chunk that is no confirmation, Accepted(first,
\* more) what it returns after the reply; every raising call lands in the
\* catch block at l.catch
Confirmed(l, cmd, answers, Confirms(_), reply, finals, Declined(_), Accepted(_, _)) ==
    \/ /\ pc = l \o ".write"
       /\ \/ Wrote(cmd) /\ Goto(l \o ".read")
          \/ WriteFailed(cmd) /\ Catch(l \o ".catch", "write failed")
    \/ /\ pc = l \o ".read"
       /\ \/ \E a \in answers :
               /\ Got(a)
               /\ IF Confirms(a) THEN Goto(l \o ".reply") ELSE Declined(a)
          \/ ReadFailed /\ Catch(l \o ".catch", "read failed")
    \/ /\ pc = l \o ".reply"
       /\ \/ Wrote(reply) /\ Goto(l \o ".read2")
          \/ WriteFailed(reply) /\ Catch(l \o ".catch", "write failed")
    \/ /\ pc = l \o ".read2"
       /\ \/ \E b \in finals : GotMore(b) /\ Accepted(output, b)
          \/ ReadFailed /\ Catch(l \o ".catch", "read failed")
    \/ /\ pc = l \o ".catch"
       /\ ReturnValue(Failure(cmd, error))
       /\ NoIO

\* what Huawei answers to `save` and to `reboot`
Huawei_ConfirmAnswers ==
    {"Are you sure to continue? [Y/N]:", "Info: [Y/N] was answered before\n<h>", "<h>"}

Huawei_confirmed(l, cmd) ==
    /\ vendor = "huawei"
    /\ \/ pc = l /\ Goto(l \o ".write") /\ NoIO
       \/ LET Declined(a) == ReturnValue(Success(cmd, a))
              Accepted(a, b) == ReturnValue(Success(cmd, a \o b))
          IN  Confirmed(l, cmd, Huawei_ConfirmAnswers, containsYesNoPrompt, "y", {"<h>"},
                        Declined, Accepted)
    /\ SameSession
    /\ SameCall

Huawei_saveConfig == Huawei_confirmed("saveConfig", "save")

Huawei_rebootDevice == Huawei_confirmed("rebootDevice", "reboot")

\* what MikroTik answers to `/system reboot`
Mikrotik_RebootAnswers ==
    {"Do you really want to reboot? [y/N]: ", "Reboot, yes? [y/N]: ", "[a@h] > "}

Mikrotik_rebootDevice_confirms(a) == Includes(ToLowerCase(a), "do you really want to reboot")

\* rebootDevice of MikroTik: the raw chunks are the output
Mikrotik_rebootDevice ==
    /\ vendor = "mikrotik"
    /\ \/ pc = "rebootDevice" /\ Goto("rebootDevice.write") /\ NoIO
       \/ LET Declined(a) == ReturnValue(Result("/system reboot", TRUE, FALSE, a, ""))
              Accepted(a, b) == ReturnValue(Result("/system reboot", TRUE, FALSE, a \o b, ""))
          IN  Confirmed("rebootDevice", "/system reboot", Mikrotik_RebootAnswers,
                        Mikrotik_rebootDevice_confirms, "y", {""}, Declined, Accepted)
    /\ SameSession
    /\ SameCall

\* what Palo Alto answers to `request restart system`
PaloAlto_RebootAnswers ==
    {"Executing this command will reboot the system. Reboot the system? (y or n)",
     "Do you want to continue? (y or n)"}

PaloAlto_rebootDevice_confirms(a) == Includes(a, "Reboot the system")

\* rebootDevice of Palo Alto: no confirmation prompt is a failure, and the
\* output is what was read after `yes`
PaloAlto_rebootDevice ==
    /\ vendor = "paloalto"
    /\ \/ /\ pc = "rebootDevice"
          /\ IF ~isConnected \/ ~currentChannel
             THEN Catch("rebootDevice.catch", "Not connected to device")
             ELSE IF ~flags.inOperationalMode
             THEN Call("enterOperationalMode", "rebootDevice.write", "rebootDevice.catch")
             ELSE Goto("rebootDevice.write")
          /\ NoIO
       \/ LET Declined(a) ==
                  Catch("rebootDevice.catch",
                        "Reboot command failed - no confirmation prompt received")
              Accepted(a, b) == ReturnValue(Success("request restart system", b))
          IN  Confirmed("rebootDevice", "request restart system", PaloAlto_RebootAnswers,
                        PaloAlto_rebootDevice_confirms, "yes", {"h> "}, Declined, Accepted)
    /\ SameSession
    /\ SameCall
(***************************************************************************)
(* The sanitizers: what each class removes from the text read after a      *)
(* command before it hands the text to the caller.                         *)
(***************************************************************************)

RECURSIVE Split(_)
\* s.split('\n')
Split(s) ==
    IF Positions(s, "\n") = {} THEN <<s>>
    ELSE LET k == SetMin(Positions(s, "\n"))
         IN  <<SubSeq(s, 1, k - 1)>> \o Split(SubSeq(s, k + 1, Len(s)))

RECURSIVE Join(_)
\* lines.join('\n')
Join(lines) ==
    IF Len(lines) = 0 THEN ""
    ELSE IF Len(lines) = 1 THEN lines[1]
    ELSE lines[1] \o "\n" \o Join(Tail(lines))

RECURSIVE Filter(_, _, _)
\* lines.filter((line, index) => ...): the lines from index i on whose index is in keep
Filter(lines, keep, i) ==
    IF i > Len(lines) THEN <<>>
    ELSE (IF i \in keep THEN <<lines[i]>> ELSE <<>>) \o Filter(lines, keep, i + 1)

\* lines.shift() when the first line includes the command
ShiftEcho(lines, command) ==
    IF Len(lines) > 0 /\ Includes(lines[1], command) THEN Tail(lines) ELSE lines

\* lines.pop()
Pop(lines) == SubSeq(lines, 1, Len(lines) - 1)

\* new RegExp(`^${escapeRegex(basePrompt)}[>#$]`).test(line)
StartsWithPrompt(line, bp) ==
    /\ Len(line) > Len(bp)
    /\ SubSeq(line, 1, Len(bp)) = bp
    /\ SubSeq(line, Len(bp) + 1, Len(bp) + 1) \in {">", "#", "$"}

\* sanitizeOutput of AristaConnection
Arista_sanitizeOutput(out, command, bp) ==
    LET lines == Split(out)
        echo(i) == Trim(lines[i]) = Trim(command)
        cleanLines == Filter(lines, {i \in 1..Len(lines) : ~(i > 1 /\ echo(i) /\ echo(i - 1))}, 1)
        shifted == ShiftEcho(cleanLines, command)
        cleanLastLine == RemoveAll(RemoveAll(shifted[Len(shifted)], "(s1)"), "(s2)")
        popped == IF Len(shifted) > 0 /\ StartsWithPrompt(cleanLastLine, bp)
                  THEN Pop(shifted) ELSE shifted
    IN  Trim(Join(popped))

\* sanitizeOutput of DellOS10Connection
Dell_sanitizeOutput(out, command, bp) ==
    LET lines == Split(out)
        shifted == IF Includes(lines[1], command) THEN Tail(lines) ELSE lines
        lastLine == shifted[Len(shifted)]
        popped == IF Len(shifted) > 0
                     /\ (StartsWithPrompt(lastLine, bp) \/ Includes(lastLine, ")#"))
                  THEN Pop(shifted) ELSE shifted
    IN  Trim(Join(popped))

\* promptPattern of MikrotikConnection, /\].*>/, tested on a line
Mikrotik_promptPattern(line) ==
    \E i \in Positions(line, "]"), j \in Positions(line, ">") : i < j

\* sanitizeMikrotikOutput of MikrotikConnection
sanitizeMikrotikOutput(out, command) ==
    LET lines == Split(out)
        cleanLines == Filter(lines, {i \in 1..Len(lines) :
                          ~(Includes(lines[i], "] >") /\ Includes(lines[i], command))}, 1)
        lastLine == cleanLines[Len(cleanLines)]
        popped == IF Len(cleanLines) > 0
                     /\ (Includes(lastLine, "] >") \/ Mikrotik_promptPattern(lastLine))
                  THEN Pop(cleanLines) ELSE cleanLines
    IN  Trim(Join(popped))

\* a sanitizer that takes no last line for a prompt
Extreme_IsPromptLine_never(lastLine) == FALSE

\* promptIdPattern.test(lastLine) || lastLine.includes('#') || lastLine.includes('>')
Extreme_IsPromptLine(lastLine) ==
    \/ promptIdPattern(lastLine).matched
    \/ Includes(lastLine, "#")
    \/ Includes(lastLine, ">")

\* sanitizeExosOutput of ExtremeExosConnection
sanitizeExosOutput(out, command) ==
    LET lines == Split(out)
        shifted == ShiftEcho(lines, command)
        popped == IF Len(shifted) > 0 /\ Extreme_IsPromptLine(shifted[Len(shifted)])
                  THEN Pop(shifted) ELSE shifted
    IN  Trim(Join(popped))

\* the place where the line holding position i ends: the next line break, or
\* one past the end of s
LineEnd(s, i) ==
    LET brk == {k \in i..Len(s) : SubSeq(s, k, k) \in {"\n", "\r"}}
    IN  IF brk = {} THEN Len(s) + 1 ELSE SetMin(brk)

\* the length of the white space s starts with
SpaceLen(s) == Len(s) - Len(TrimStart(s))

\* output.replace(new RegExp('^' + escaped command + '\\s*', 'm'), ''): the
\* first line start where the command stands, with the white space after it
RemoveEcho(s, command) ==
    LET starts == {i \in Positions(s, command) :
                       i = 1 \/ SubSeq(s, i - 1, i - 1) \in {"\n", "\r"}}
    IN  IF starts = {} THEN s
        ELSE LET i == SetMin(starts)
             IN  SubSeq(s, 1, i - 1) \o TrimStart(SubSeq(s, i + Len(command), Len(s)))

RECURSIVE ReplaceAll(_, _, _)
\* s.replace(/p/g, q) for a literal p
ReplaceAll(s, p, q) ==
    IF Len(s) < Len(p) THEN s
    ELSE IF SubSeq(s, 1, Len(p)) = p
    THEN q \o ReplaceAll(SubSeq(s, Len(p) + 1, Len(s)), p, q)
    ELSE SubSeq(s, 1, 1) \o ReplaceAll(SubSeq(s, 2, Len(s)), p, q)

\* s.replace(/\r\n/g, '\n').replace(/\r/g, '\n')
NormalizeNewlines(s) == ReplaceAll(ReplaceAll(s, "\r\n", "\n"), "\r", "\n")

PromptTerminators == {">", "#", "$", "%"}

\* where a match of /[>#$%]\s*$/m that starts at j can end: after the
\* terminator and some of the white space behind it, at the end of a line
PromptEnds(s, j) ==
    {p \in (j + 1)..(j + 1 + SpaceLen(SubSeq(s, j + 1, Len(s)))) :
        p = Len(s) + 1 \/ SubSeq(s, p, p) \in {"\n", "\r"}}

\* the terminators a match of /\n[^\n]*[>#$%]\s*$/m that starts at the
\* newline i can use: those of the line after i
PromptMarks(s, i) ==
    LET stop == IF Positions(SubSeq(s, i + 1, Len(s)), "\n") = {} THEN Len(s) + 1
                ELSE i + SetMin(Positions(SubSeq(s, i + 1, Len(s)), "\n"))
    IN  {j \in (i + 1)..(stop - 1) :
            SubSeq(s, j, j) \in PromptTerminators /\ PromptEnds(s, j) # {}}

\* s.replace(/\n[^\n]*[>#$%]\s*$/m, ''): the pattern is not global, so only its
\* first match goes, the first line after a newline that ends in a terminator
RemoveTrailingPrompt(s) ==
    LET starts == {i \in Positions(s, "\n") : PromptMarks(s, i) # {}}
    IN  IF starts = {} THEN s
        ELSE LET i == SetMin(starts)
                 p == SetMax(PromptEnds(s, SetMax(PromptMarks(s, i))))
             IN  SubSeq(s, 1, i - 1) \o SubSeq(s, p, Len(s))

\* sanitizeOutput of PaloAltoConnection; the two replaces after trim() find
\* no newline at either end of a trimmed text
PaloAlto_sanitizeOutput(out, command) ==
    Trim(RemoveTrailingPrompt(NormalizeNewlines(RemoveEcho(out, command))))

RECURSIVE RemovePrompt(_, _)
\* s.replace(new RegExp(lit + '[>#\\$%]?', 'g'), '') for a literal lit
RemovePrompt(s, lit) ==
    IF Len(s) < Len(lit) THEN s
    ELSE IF SubSeq(s, 1, Len(lit)) = lit
    THEN LET rest == SubSeq(s, Len(lit) + 1, Len(s))
         IN  IF Len(rest) > 0 /\ SubSeq(rest, 1, 1) \in PromptTerminators
             THEN RemovePrompt(SubSeq(rest, 2, Len(rest)), lit)
             ELSE RemovePrompt(rest, lit)
    ELSE SubSeq(s, 1, 1) \o RemovePrompt(SubSeq(s, 2, Len(s)), lit)

RECURSIVE RemoveBracketed(_, _, _)
\* s.replace(/<[^>]+>[>#\$\%]?/g, '') for the brackets open and close
RemoveBracketed(s, open, close) ==
    IF Len(s) = 0 THEN s
    ELSE LET closes == {j \in 2..Len(s) : SubSeq(s, j, j) = close}
         IN  IF SubSeq(s, 1, 1) = open /\ closes # {} /\ SetMin(closes) >= 3
             THEN LET rest == SubSeq(s, SetMin(closes) + 1, Len(s))
                  IN  IF Len(rest) > 0 /\ SubSeq(rest, 1, 1) \in PromptTerminators
                      THEN RemoveBracketed(SubSeq(rest, 2, Len(rest)), open, close)
                      ELSE RemoveBracketed(rest, open, close)
             ELSE SubSeq(s, 1, 1) \o RemoveBracketed(SubSeq(s, 2, Len(s)), open, close)

RECURSIVE CollapseBlankLines(_)
\* s.replace(/\n\s*\n\s*\n/g, '\n\n')
CollapseBlankLines(s) ==
    IF Len(s) = 0 THEN s
    ELSE LET breaks == {k \in 1..SpaceLen(s) : SubSeq(s, k, k) = "\n"}
         IN  IF SubSeq(s, 1, 1) = "\n" /\ Cardinality(breaks) >= 3
             THEN "\n\n" \o CollapseBlankLines(SubSeq(s, SetMax(breaks) + 1, Len(s)))
             ELSE SubSeq(s, 1, 1) \o CollapseBlankLines(SubSeq(s, 2, Len(s)))

\* sanitizeOutput of HuaweiConnection, for a command without `;` (its parts
\* are the command itself) and a text that holds no pager line
Huawei_sanitizeOutput(out, command, bp) ==
    LET noEcho == IF command # "" THEN RemoveAll(RemoveAll(out, command), command) ELSE out
        noPrompt == IF bp # ""
                    THEN RemovePrompt(RemovePrompt(noEcho, "<" \o bp \o ">"), "[" \o bp \o "]")
                    ELSE RemoveBracketed(RemoveBracketed(noEcho, "<", ">"), "[", "]")
    IN  Trim(CollapseBlankLines(NormalizeNewlines(noPrompt)))

IsWordChar(c) == Includes(LowerChars, c) \/ Includes(UpperChars, c) \/ IsDigit(c) \/ c = "_"

\* the length of the run of \S characters s starts with
WordLen(s) ==
    LET spaces == {k \in 1..Len(s) : IsSpace(SubSeq(s, k, k))}
    IN  IF spaces = {} THEN Len(s) ELSE SetMin(spaces) - 1

RECURSIVE RemoveAdminTag(_)
\* s.replace(/admin@[\w-]+\S*/g, '')
RemoveAdminTag(s) ==
    LET starts == {i \in Positions(s, "admin@") :
                       i + 6 <= Len(s)
                       /\ (IsWordChar(SubSeq(s, i + 6, i + 6)) \/ SubSeq(s, i + 6, i + 6) = "-")}
    IN  IF starts = {} THEN s
        ELSE LET i == SetMin(starts)
                 rest == SubSeq(s, i + 6, Len(s))
             IN  SubSeq(s, 1, i - 1)
                 \o RemoveAdminTag(SubSeq(rest, WordLen(rest) + 1, Len(rest)))

\* the closing brackets a match of /open.*close/ that starts at i can end with
Closers(s, i, open, close) ==
    {j \in (i + Len(open))..(LineEnd(s, i) - 1) : SubSeq(s, j, j) = close}

RECURSIVE RemoveMarker(_, _, _)
\* s.replace(/open.*close/g, ''): from the opening text to the last closing
\* bracket of the same line
RemoveMarker(s, open, close) ==
    LET starts == {i \in Positions(s, open) : Closers(s, i, open, close) # {}}
    IN  IF starts = {} THEN s
        ELSE LET i == SetMin(starts)
                 j == SetMax(Closers(s, i, open, close))
             IN  SubSeq(s, 1, i - 1) \o RemoveMarker(SubSeq(s, j + 1, Len(s)), open, close)

\* the lines of stripFlexVNFContext's result: trimmed, the empty ones dropped
TrimmedLines(lines) ==
    LET trimmed == [i \in 1..Len(lines) |-> Trim(lines[i])]
    IN  Filter(trimmed, {i \in 1..Len(lines) : Len(trimmed[i]) > 0}, 1)

\* stripFlexVNFContext of VersaFlexVNFConnectionBase: the patterns of
\* stringsToStrip one after the other, each over the result of the one before
stripFlexVNFContext(out) ==
    LET r1 == RemoveAdminTag(out)
        r2 == RemoveMarker(r1, "[edit", "]")
        r3 == RemoveAll(r2, "[edit]")
        r4 == RemoveAll(r3, "[ok]")
        r5 == RemoveMarker(r4, "{master:", "}")
        r6 == RemoveMarker(r5, "{backup:", "}")
        r7 == RemoveMarker(r6, "{line", "}")
        r8 == RemoveMarker(r7, "{primary", "}")
        r9 == RemoveMarker(r8, "{secondary", "}")
    IN  Join(TrimmedLines(Split(r9)))

(***************************************************************************)
(* VersaFlexVNFConnectionBase.commit and saveConfig.                       *)
(***************************************************************************)

\* the options of commit after destructuring; confirmDelay is <<>> when it
\* was not given and <<n>> when it was
CommitOptions(check, confirm, confirmDelay, comment, andQuit) ==
    [check |-> check, confirm |-> confirm, confirmDelay |-> confirmDelay,
     comment |-> comment, andQuit |-> andQuit]

\* commit({ comment: 'Configuration saved via n8n' }) of saveConfig
SaveOptions == CommitOptions(FALSE, FALSE, <<>>, "Configuration saved via n8n", FALSE)

\* the options of the call of commit in progress
Versa_options == IF op = "saveConfig" THEN SaveOptions ELSE Head(args)

\* a number used as a condition: undefined and 0 are false
Truthy(confirmDelay) == confirmDelay # <<>> /\ Head(confirmDelay) # 0

\* `comment` used as a condition: the empty string is false
NonEmpty(comment) == comment # ""

\* if (check && (confirm || confirmDelay || comment))
Versa_checkWithOthers(o) ==
    o.check /\ (o.confirm \/ Truthy(o.confirmDelay) \/ NonEmpty(o.comment))

\* if (confirmDelay && !confirm)
Versa_delayWithoutConfirm(o) == Truthy(o.confirmDelay) /\ ~o.confirm

\* if (comment) { if (comment.includes('"'))
Versa_commentWithQuote(o) == NonEmpty(o.comment) /\ Includes(o.comment, "\"")

Versa_commandString(o) ==
    LET verb == IF o.check THEN "commit check"
                ELSE IF o.confirm
                THEN IF Truthy(o.confirmDelay)
                     THEN "commit confirmed " \o ToString(Head(o.confirmDelay))
                     ELSE "commit confirmed"
                ELSE "commit"
        withComment == IF NonEmpty(o.comment)
                       THEN verb \o " comment \"" \o o.comment \o "\""
                       ELSE verb
    IN  IF o.andQuit THEN withComment \o " and-quit" ELSE withComment

Versa_commitMarker(o) ==
    IF o.check THEN "Validation complete"
    ELSE IF o.confirm THEN "commit confirmed will be automatically rolled back in"
    ELSE "Commit complete."

\* what the device prints for a commit
Versa_CommitAnswers ==
    {"Commit complete.\n[edit]\nh% ",
     "Validation complete\n[edit]\nh% ",
     "commit confirmed will be automatically rolled back in 10 minutes\n[edit]\nh% ",
     "Aborted: no modifications to commit\n[edit]\nh% "}

\* a string a method returns
Str(s) == [kind |-> "string", value |-> s]

Versa_commit ==
    /\ vendor = "versa"
    /\ \/ /\ pc = "commit"
          /\ IF Versa_checkWithOthers(Versa_options)
             THEN Throw("Invalid arguments: cannot use check with confirm, confirmDelay, or comment")
             ELSE IF Versa_delayWithoutConfirm(Versa_options)
             THEN Throw("Invalid arguments: confirmDelay requires confirm to be true")
             ELSE IF Versa_commentWithQuote(Versa_options)
             THEN Throw("Invalid comment: contains double quote")
             ELSE Call("enterConfigMode", "commit.write", "commit.catch")
          /\ NoIO
       \/ /\ pc = "commit.write"
          /\ \/ Wrote(Versa_commandString(Versa_options)) /\ Goto("commit.read")
             \/ /\ WriteFailed(Versa_commandString(Versa_options))
                /\ Catch("commit.catch", "write failed")
       \/ /\ pc = "commit.read"
          /\ \/ \E a \in Versa_CommitAnswers :
                  /\ Got(a)
                  /\ IF ~Includes(a, Versa_commitMarker(Versa_options))
                     THEN Catch("commit.catch", "Commit failed with the following errors")
                     ELSE ReturnValue(Str(stripFlexVNFContext(a)))
             \/ ReadFailed /\ Catch("commit.catch", "Timeout waiting for prompt")
       \/ /\ pc = "commit.catch"
          /\ Throw("Failed to commit configuration")
          /\ NoIO
    /\ SameSession
    /\ SameCall

\* the error saveConfig's catch block raises
Versa_saveConfig_catch == Throw("Failed to save configuration")

Versa_saveConfig ==
    /\ vendor = "versa"
    /\ \/ /\ pc = "saveConfig"
          /\ Call("commit", "saveConfig.return", "saveConfig.catch")
       \/ /\ pc = "saveConfig.return"
          /\ ReturnValue(Result("commit", TRUE, FALSE, ret.value, ""))
       \/ /\ pc = "saveConfig.catch"
          /\ Versa_saveConfig_catch
    /\ NoIO
    /\ SameSession
    /\ SameCall
(***************************************************************************)
(* ConnectionDispatcher.autoDetectDeviceType: the device type guessed from *)
(* what a generic session reads after a bare return.                       *)
(***************************************************************************)

\* a probe output nothing is a Nexus for
IsNexus_never(out) == FALSE

\* output.includes('nx-os') || output.includes('nexus')
IsNexus(out) == Includes(out, "nx-os") \/ Includes(out, "nexus")

\* a probe output every device is a Linux host for
IsLinux_always(out) == TRUE

\* the Linux detection patterns: six names, and the characters $ and ~
IsLinux(out) ==
    LET has(k) == Includes(out, k)
    IN  has("linux") \/ has("ubuntu") \/ has("centos") \/ has("redhat")
            \/ has("debian") \/ has("bash") \/ has("$") \/ has("~")

\* the tests of autoDetectDeviceType in their order, on the lower-cased
\* output; "null" is the null of `return null`
DetectedType(out) ==
    LET has(k) == Includes(out, k)
    IN  IF has("cisco") \/ has("ios") \/ has("nx-os")
        THEN IF IsNexus(out) THEN "cisco_nxos"
             ELSE IF has("asa") THEN "cisco_asa"
             ELSE IF has("ios-xr") \/ has("iosxr") THEN "cisco_ios_xr"
             ELSE IF has("ios-xe") THEN "cisco_ios_xe"
             ELSE IF has("sg300") \/ has("small business") THEN "cisco_sg300"
             ELSE "cisco_ios"
        ELSE IF has("junos") \/ has("juniper")
        THEN IF has("srx") THEN "juniper_srx" ELSE "juniper_junos"
        ELSE IF has("ciena") \/ has("saos") THEN "ciena_saos"
        ELSE IF has("fortinet") \/ has("fortios") \/ has("fortigate") THEN "fortinet_fortios"
        ELSE IF has("palo alto") \/ has("pan-os") \/ has("panos") \/ has("paloalto")
        THEN "paloalto_panos"
        ELSE IF has("ericsson") \/ has("ipos") THEN "ericsson_ipos"
        ELSE IF has("minilink") THEN "ericsson_mltn"
        ELSE IF IsLinux(out) THEN "linux"
        ELSE IF has("huawei") \/ has("vrp") \/ has("versatile routing platform")
                \/ has("ne8000")
        THEN "huawei_vrp"
        ELSE IF has("arista") \/ has("arista eos") THEN "arista_eos"
        ELSE IF has("procurve") \/ has("hp switch") THEN "hp_procurve"
        ELSE IF has("aruba")
        THEN IF has("arubaos") \/ has("mobility controller") \/ has("mobility master")
             THEN "aruba_os"
             ELSE "aruba_aoscx"
        ELSE IF has("ubiquiti") \/ has("ubnt")
        THEN IF has("edgerouter") \/ has("edgeos") THEN "ubiquiti_edgerouter"
             ELSE IF has("edgeswitch") THEN "ubiquiti_edgeswitch"
             ELSE IF has("unifi") THEN "ubiquiti_unifi"
             ELSE "ubiquiti_edgeswitch"
        ELSE IF has("mikrotik") \/ has("routeros")
        THEN IF has("switchos") THEN "mikrotik_switchos" ELSE "mikrotik_routeros"
        ELSE IF has("extremexos") \/ has("extreme networks") \/ has("exos") THEN "extreme_exos"
        ELSE IF has("dell") /\ (has("os10") \/ has("dellos10")) THEN "dell_os10"
        ELSE IF has("versa") \/ has("flexvnf") THEN "versa_flexvnf"
        ELSE "null"

\* the product names a device may print when a session opens
BannerWords ==
    <<"Cisco", "Nexus", "NX-OS", "ASA", "IOS-XR", "IOS-XE", "SG300", "JunOS", "Ciena",
      "Fortinet", "FortiOS", "FortiGate", "PAN-OS", "Arista">>

\* a banner names at most this many products
MaxWords == 3

RECURSIVE BannerOf(_, _)
\* the banner that prints the words at the places S, from place i on
BannerOf(S, i) ==
    IF i > Len(BannerWords) THEN ""
    ELSE IF i \in S THEN BannerWords[i] \o " " \o BannerOf(S, i + 1)
    ELSE BannerOf(S, i + 1)

\* the prompt a device may print after its banner: none, a user or
\* privileged prompt, or the prompt of a shell
ProbePrompts == {"", "h> ", "h# ", "h$ ", "user@box:~$ "}

\* banners of the products the later tests of autoDetectDeviceType look for
LaterBanners ==
    {"Juniper SRX", "Ericsson", "MiniLink", "Linux", "Huawei VRP", "ProCurve",
     "ArubaOS", "Aruba", "Ubiquiti EdgeRouter", "Ubiquiti EdgeSwitch", "Ubiquiti UniFi",
     "Ubiquiti", "MikroTik RouterOS", "MikroTik SwitchOS", "ExtremeXOS", "Dell OS10",
     "Versa FlexVNF"}

Banners ==
    {BannerOf(S, 1) \o p :
        S \in {T \in SUBSET (1..Len(BannerWords)) : Cardinality(T) <= MaxWords},
        p \in ProbePrompts}
    \cup {b \o " " \o p : b \in LaterBanners, p \in ProbePrompts}

\* where control goes when the catch block of autoDetectDeviceType has
\* returned null with nothing disconnected
autoDetect_catch_skip == "done"

\* where control goes when the catch block of autoDetectDeviceType has
\* returned null: the finally block runs before the call completes
autoDetect_catch == "autoDetectDeviceType.finally"

\* autoDetectDeviceType: connect a generic session, read the answer to a
\* bare return, classify it, and disconnect whatever happened; `error` keeps
\* the call whose exception the catch block swallowed
autoDetectDeviceType ==
    /\ op = "autoDetectDeviceType"
    /\ \/ /\ pc = "autoDetectDeviceType"
          /\ \/ /\ isConnected' = TRUE
                /\ currentChannel' = TRUE
                /\ pc' = "autoDetectDeviceType.probe"
                /\ UNCHANGED <<ret, error>>
             \/ /\ UNCHANGED <<isConnected, currentChannel>>
                /\ pc' = autoDetect_catch
                /\ error' = "connect"
                /\ ret' = [kind |-> "returned", value |-> "null"]
          /\ UNCHANGED <<output, closed>>
       \/ /\ pc = "autoDetectDeviceType.probe"
          /\ \/ /\ \E banner \in Banners :
                      /\ output' = ToLowerCase(banner)
                      /\ ret' = [kind |-> "returned",
                                 value |-> DetectedType(ToLowerCase(banner))]
                /\ pc' = "autoDetectDeviceType.finally"
                /\ UNCHANGED error
             \/ /\ pc' = autoDetect_catch
                /\ error' = "sendCommand"
                /\ ret' = [kind |-> "returned", value |-> "null"]
                /\ UNCHANGED output
          /\ UNCHANGED <<isConnected, currentChannel, closed>>
       \/ /\ pc = "autoDetectDeviceType.finally"
          /\ isConnected' = FALSE
          /\ currentChannel' = FALSE
          /\ closed' = closed + 1
          /\ pc' = "done"
          /\ UNCHANGED <<output, ret, error>>
    /\ UNCHANGED <<vendor, fastMode, flags, basePrompt, stack, op, args, cmds, attempts,
                   chan, par, conn>>

InitDetect ==
    /\ \E fast \in BOOLEAN : NewSession("generic", fast)
    /\ closed = 0
    /\ op = "autoDetectDeviceType"
    /\ pc = "autoDetectDeviceType"
    /\ stack = <<>>
    /\ args = <<>>
    /\ cmds = <<>>
    /\ attempts = 0
    /\ output = ""
    /\ error = ""
    /\ chan = <<>>
    /\ par = NoPar
    /\ ret = NoRet
    /\ conn = NoConn

NextDetect == autoDetectDeviceType

SpecDetect == InitDetect /\ [][NextDetect]_vars

(***************************************************************************)
(* ConnectHandlerWithAutoDetect: detect the type, then create the session. *)
(***************************************************************************)

\* a handler that takes every detection result for a type
NotDetected_never(detectedType) == FALSE

\* if (!detectedType)
NotDetected(detectedType) == detectedType \in {"null", ""}

\* the rest of ConnectHandlerWithAutoDetect once autoDetectDeviceType has
\* returned: raise, or create the session for the detected type with the
\* caller's credentials
ConnectHandlerWithAutoDetect ==
    /\ op = "autoDetectDeviceType"
    /\ pc = "done"
    /\ conn = NoConn
    /\ IF NotDetected(ret.value)
       THEN conn' = [kind |-> "raised", error |-> "Could not auto-detect device type",
                     tag |-> ret.value]
       ELSE \E jh \in JumpHostInputs : conn' = CreateConnectionResult(ret.value, jh)
    /\ UNCHANGED <<sessionVars, opVars>>

NextAutoConnect ==
    \/ autoDetectDeviceType
    \/ ConnectHandlerWithAutoDetect

SpecAutoConnect == InitDetect /\ [][NextAutoConnect]_vars
(***************************************************************************)
(* The caller of a session: it starts an operation when none is in         *)
(* progress and takes its result.                                          *)
(***************************************************************************)

Start(name, arg) ==
    /\ op = "idle"
    /\ op' = name
    /\ pc' = name
    /\ args' = arg
    /\ cmds' = arg
    /\ UNCHANGED <<vendor, isConnected, currentChannel, fastMode, flags, basePrompt,
                   closed, stack, attempts, output, error, chan, par, ret, conn>>

Vendors ==
    {"mikrotik", "paloalto", "extreme", "huawei", "edgerouter", "versa", "procurve", "unifi"}

\* the vendors whose sendCommand, sendConfig and disconnect are overridden
SendCommandVendors == {"mikrotik", "paloalto", "extreme"}

SendConfigVendors == {"mikrotik", "paloalto", "versa", "huawei", "edgerouter"}

DisconnectVendors == {"mikrotik", "procurve", "unifi"}

connect == ~isConnected /\ Start("connect", <<>>)

sendCommand == vendor \in SendCommandVendors /\ \E c \in Commands : Start("sendCommand", <<c>>)

sendConfig == vendor \in SendConfigVendors /\ \E l \in ConfigLists : Start("sendConfig", l)

\* the inherited sendConfig entering configuration mode
enterConfigMode == vendor \in EnableVendors /\ isConnected /\ Start("enterConfigMode", <<>>)

disconnect == vendor \in DisconnectVendors /\ Start("disconnect", <<>>)

\* the caller has taken the result
Finish ==
    /\ pc = "done"
    /\ closed' = 0
    /\ op' = "idle"
    /\ pc' = "idle"
    /\ stack' = <<>>
    /\ args' = <<>>
    /\ cmds' = <<>>
    /\ attempts' = 0
    /\ output' = ""
    /\ error' = ""
    /\ chan' = <<>>
    /\ par' = NoPar
    /\ ret' = NoRet
    /\ UNCHANGED <<vendor, isConnected, currentChannel, fastMode, flags, basePrompt, conn>>

Init ==
    /\ \E v \in Vendors, fast \in BOOLEAN : NewSession(v, fast)
    /\ IdleOp
    /\ conn = NoConn

Next ==
    \/ connect
    \/ sendCommand
    \/ sendConfig
    \/ enterConfigMode
    \/ disconnect
    \/ Finish
    \/ Base_connect
    \/ Base_disconnect
    \/ Mikrotik_sessionPreparation
    \/ Mikrotik_setBasePrompt
    \/ Mikrotik_sendCommand
    \/ Mikrotik_sendConfig
    \/ Mikrotik_disconnect
    \/ PaloAlto_sessionPreparation
    \/ PaloAlto_parallelSetup
    \/ PaloAlto_enterOperationalMode
    \/ PaloAlto_setBasePrompt
    \/ PaloAlto_enterConfigMode
    \/ PaloAlto_exitConfigMode
    \/ PaloAlto_sendCommand
    \/ PaloAlto_sendConfig
    \/ Base_setBasePrompt
    \/ Extreme_sessionPreparation
    \/ Extreme_setBasePrompt
    \/ Extreme_sendCommand
    \/ Huawei_sessionPreparation
    \/ Huawei_enterConfigMode
    \/ Huawei_exitConfigMode
    \/ Huawei_sendConfig
    \/ EdgeRouter_sessionPreparation
    \/ EdgeRouter_enterConfigMode
    \/ EdgeRouter_exitConfigMode
    \/ EdgeRouter_sendConfig
    \/ Versa_sessionPreparation
    \/ Versa_enterCliMode
    \/ Versa_parallelSetup
    \/ Versa_checkConfigMode
    \/ Versa_enterConfigMode
    \/ Versa_sendConfig
    \/ Cisco_enterEnableMode
    \/ HP_sessionPreparation
    \/ Switch_checkConfigMode
    \/ Switch_enterConfigMode
    \/ Switch_exitConfigMode
    \/ HP_disconnect
    \/ Unifi_sessionPreparation
    \/ Unifi_enterSwitchCli
    \/ Unifi_exitSwitchCli
    \/ Unifi_disconnect

Spec == Init /\ [][Next]_vars

(***************************************************************************)
(* The privilege and mode state machine of the Cisco-like plugins that     *)
(* need enable mode: any sequence of connect, enterConfigMode,             *)
(* exitConfigMode, exitEnableMode and saveConfig.                          *)
(***************************************************************************)

\* the enable-requiring plugins
PrivilegedVendors == {"arista", "procurve", "aruba", "edgeswitch"}

exitConfigMode == isConnected /\ Start("exitConfigMode", <<>>)

exitEnableMode == vendor = "edgeswitch" /\ isConnected /\ Start("exitEnableMode", <<>>)

saveConfig == vendor \in {"edgeswitch", "huawei"} /\ Start("saveConfig", <<>>)

rebootDevice == vendor \in {"huawei", "mikrotik", "paloalto"} /\ Start("rebootDevice", <<>>)

InitEnable ==
    /\ \E v \in PrivilegedVendors, fast \in BOOLEAN : NewSession(v, fast)
    /\ IdleOp
    /\ conn = NoConn

NextEnable ==
    \/ connect
    \/ enterConfigMode
    \/ exitConfigMode
    \/ exitEnableMode
    \/ saveConfig
    \/ Finish
    \/ Base_connect
    \/ Base_setBasePrompt
    \/ Cisco_enterEnableMode
    \/ Cisco_terminalSetup
    \/ Cisco_exitConfigMode
    \/ HP_sessionPreparation
    \/ Arista_sessionPreparation
    \/ Aruba_sessionPreparation
    \/ EdgeSwitch_sessionPreparation
    \/ Switch_checkConfigMode
    \/ Switch_enterConfigMode
    \/ Switch_exitConfigMode
    \/ Aruba_exitConfigMode
    \/ EdgeSwitch_exitEnableMode
    \/ EdgeSwitch_saveConfig

SpecEnable == InitEnable /\ [][NextEnable]_vars

(***************************************************************************)
(* The commands that handle a confirmation dialog: saveConfig and          *)
(* rebootDevice on a session that may or may not be connected.             *)
(***************************************************************************)

ConfirmingVendors == {"huawei", "edgeswitch", "mikrotik", "paloalto"}

InitConfirm ==
    /\ \E v \in ConfirmingVendors, fast \in BOOLEAN : NewSession(v, fast)
    /\ IdleOp
    /\ conn = NoConn

NextConfirm ==
    \/ connect
    \/ saveConfig
    \/ rebootDevice
    \/ Finish
    \/ Base_connect
    \/ Base_setBasePrompt
    \/ Cisco_enterEnableMode
    \/ Cisco_terminalSetup
    \/ EdgeSwitch_sessionPreparation
    \/ EdgeSwitch_saveConfig
    \/ Huawei_sessionPreparation
    \/ Huawei_saveConfig
    \/ Huawei_rebootDevice
    \/ Mikrotik_sessionPreparation
    \/ Mikrotik_setBasePrompt
    \/ Mikrotik_rebootDevice
    \/ PaloAlto_sessionPreparation
    \/ PaloAlto_parallelSetup
    \/ PaloAlto_enterOperationalMode
    \/ PaloAlto_setBasePrompt
    \/ PaloAlto_rebootDevice

SpecConfirm == InitConfirm /\ [][NextConfirm]_vars
(***************************************************************************)
(* The sanitizers on their own: a session that has read the text `output`  *)
(* after the command `args` hands it to the sanitizer of its class.        *)
(***************************************************************************)

SanitizeCommands == {"show x", "set y"}

\* what a device prints between the echo and the prompt
Bodies == {"ok", " a\nb ", "up 50%\nok", "x\na#\nb", "show x", "see set y"}

\* the prompts a device of the class shows: user, privileged, configuration
PromptsOf(v) ==
    CASE v \in {"arista", "dell"} -> {"h>", "h#", "h(config)#"}
      [] v = "paloalto" -> {"a@h> ", "a@h# "}
      [] v = "huawei" -> {"<h>", "[h]"}
      [] v = "mikrotik" -> {"[a@h] > "}
      [] v = "extreme" -> {"h.3 # ", "* h.12 # "}

\* what the probe of setBasePrompt read when the session was prepared
LoginPromptsOf(v) ==
    CASE v \in {"arista", "dell"} -> {"h>", "h#"}
      [] v = "paloalto" -> {"a@h> "}
      [] v = "huawei" -> {"<h>", ""}
      [] v = "mikrotik" -> {"[a@h] > "}
      [] v = "extreme" -> {"h.3 # "}

\* the base prompt the class keeps of it
LearnedPrompt(v, login) ==
    CASE v = "mikrotik" -> Mikrotik_basePromptOf(login)
      [] v = "extreme" -> Extreme_basePromptOf(login)
      [] OTHER -> BasePromptOf(login, PromptTerminators)

\* the echo of a command: RouterOS repeats its prompt before it
EchoOf(v, command) == IF v = "mikrotik" THEN "[a@h] > " \o command ELSE command

\* the text read after a command: its echo, the body, the prompt
RawText(echo, body, prompt) == echo \o "\n" \o body \o "\n" \o prompt

SanitizerVendors == {"arista", "dell", "paloalto", "huawei", "mikrotik", "extreme"}

\* the texts a FlexVNF sends after a configuration command or a commit
Versa_RawTexts ==
    {"set a\n[ok]\n[edit]\nadmin@h% ",
     "set a\n[ok][2024]\n\n[edit system services]\nadmin@h-cli(config)% ",
     "{master:0}[edit]\nadmin@h# \nCommit complete.\n{backup:1}",
     "Commit complete.\n[ok]\n[edit]\nadmin@h% ",
     "description [ed[ok]it]\nCommit complete.\n[edit]\nadmin@h% ",
     "description {line 1} {master:0}\n[edit]\nadmin@h% ",
     "mail adm[ok]in@h\n[edit]\nadmin@h% ",
     "syntax error\n[edit]\nadmin@h% "}

SanitizeSession(v, login) ==
    /\ vendor = v
    /\ isConnected = TRUE
    /\ currentChannel = TRUE
    /\ fastMode = FALSE
    /\ flags = NoFlags
    /\ basePrompt = LearnedPrompt(v, login)
    /\ closed = 0
    /\ pc = "sanitizeOutput"
    /\ stack = <<>>
    /\ attempts = 0
    /\ error = ""
    /\ chan = <<>>
    /\ par = NoPar
    /\ ret = NoRet
    /\ conn = NoConn

InitSanitize ==
    \/ \E v \in SanitizerVendors, command \in SanitizeCommands, body \in Bodies :
       \E login \in LoginPromptsOf(v), prompt \in PromptsOf(v) :
          /\ SanitizeSession(v, login)
          /\ op = "sendCommand"
          /\ args = command
          /\ cmds = <<>>
          /\ output = RawText(EchoOf(v, command), body, prompt)
    \/ \E first \in PromptsOf("extreme"), second \in PromptsOf("extreme"), body \in Bodies :
          /\ SanitizeSession("extreme", "h.3 # ")
          /\ op = "sendConfig"
          /\ args = <<"set y", "show x">>
          /\ cmds = <<RawText("set y", "", first), RawText("show x", body, second)>>
          /\ output = ""
    \/ \E o \in {"sendConfig", "commit"}, raw \in Versa_RawTexts :
          /\ SanitizeSession("versa", "admin@h> ")
          /\ op = o
          /\ args = <<>>
          /\ cmds = <<>>
          /\ output = raw

\* the sanitizer has run: `text` is what the caller gets
Sanitized(text) ==
    /\ pc = "sanitizeOutput"
    /\ pc' = "done"
    /\ ret' = [kind |-> "text", text |-> text]
    /\ UNCHANGED <<vendor, isConnected, currentChannel, fastMode, flags, basePrompt,
                   closed, op, stack, args, cmds, attempts, output, error, chan, par, conn>>

Arista_sanitized ==
    vendor = "arista" /\ Sanitized(Arista_sanitizeOutput(output, args, basePrompt))

Dell_sanitized ==
    vendor = "dell" /\ Sanitized(Dell_sanitizeOutput(output, args, basePrompt))

PaloAlto_sanitized ==
    vendor = "paloalto" /\ Sanitized(PaloAlto_sanitizeOutput(output, args))

Huawei_sanitized ==
    vendor = "huawei" /\ Sanitized(Huawei_sanitizeOutput(output, args, basePrompt))

Mikrotik_sanitized ==
    vendor = "mikrotik" /\ Sanitized(sanitizeMikrotikOutput(output, args))

\* the output of ExtremeExosConnection.sendCommand
Extreme_sendCommand_output ==
    vendor = "extreme" /\ op = "sendCommand" /\ Sanitized(sanitizeExosOutput(output, args))

RECURSIVE Extreme_allOutput(_, _)
\* allOutput of ExtremeExosConnection.sendConfig: the output of sendCommand
\* for each command, each followed by a newline
Extreme_allOutput(commands, texts) ==
    IF Len(commands) = 0 THEN ""
    ELSE sanitizeExosOutput(Head(texts), Head(commands)) \o "\n"
         \o Extreme_allOutput(Tail(commands), Tail(texts))

\* the output of ExtremeExosConnection.sendConfig
Extreme_sendConfig_output ==
    vendor = "extreme" /\ op = "sendConfig" /\ Sanitized(Trim(Extreme_allOutput(args, cmds)))

\* the output of VersaFlexVNFConnectionBase.sendConfig
Versa_sendConfig_output ==
    vendor = "versa" /\ op = "sendConfig" /\ Sanitized(stripFlexVNFContext(output))

\* what VersaFlexVNFConnectionBase.commit returns, or its failure
Versa_commit_output ==
    /\ vendor = "versa"
    /\ op = "commit"
    /\ IF Includes(output, "Commit complete.")
       THEN Sanitized(stripFlexVNFContext(output))
       ELSE /\ pc = "sanitizeOutput"
            /\ pc' = "done"
            /\ ret' = [kind |-> "thrown"]
            /\ UNCHANGED <<vendor, isConnected, currentChannel, fastMode, flags, basePrompt,
                           closed, op, stack, args, cmds, attempts, output, error, chan,
                           par, conn>>

NextSanitize ==
    \/ Arista_sanitized
    \/ Dell_sanitized
    \/ PaloAlto_sanitized
    \/ Huawei_sanitized
    \/ Mikrotik_sanitized
    \/ Extreme_sendCommand_output
    \/ Extreme_sendConfig_output
    \/ Versa_sendConfig_output
    \/ Versa_commit_output

SpecSanitize == InitSanitize /\ [][NextSanitize]_vars

(***************************************************************************)
(* MikrotikConnection.connect: the login name carries the terminal options *)
(* of RouterOS while the inherited connect runs.  `conn` holds the         *)
(* credentials of the session and the name kept by the constructor.        *)
(***************************************************************************)

\* the login names a caller supplies
Usernames == {"admin", "ops"}

\* this.originalUsername = credentials.username; the constructor
Credentials(u) == [kind |-> "credentials", username |-> u, originalUsername |-> u]

\* the login name left as the caller supplied it
modifyUsername_plain(original) == original

\* modifyUsername: `${this.originalUsername}+ct511w4098h`
modifyUsername(original) == original \o "+ct511w4098h"

\* connect of MikrotikConnection: set the modified name, await the
\* inherited connect, then set the original name again
Mikrotik_connect ==
    /\ vendor = "mikrotik"
    /\ \/ /\ pc = "Mikrotik.connect"
          /\ conn' = [conn EXCEPT !.username = modifyUsername(conn.originalUsername)]
          /\ Call("connect", "Mikrotik.connect.restore", "none")
       \/ /\ pc = "Mikrotik.connect.restore"
          /\ conn' = [conn EXCEPT !.username = conn.originalUsername]
          /\ ReturnVoid
    /\ NoIO
    /\ SameSession
    /\ UNCHANGED <<vendor, fastMode, op, args, cmds, attempts, par>>

\* a caller connects the session
Mikrotik_connect_start == ~isConnected /\ Start("Mikrotik.connect", <<>>)

\* a caller disconnects the session
Mikrotik_disconnect_start == vendor = "mikrotik" /\ Start("disconnect", <<>>)

InitCredentials ==
    /\ \E fast \in BOOLEAN : NewSession("mikrotik", fast)
    /\ IdleOp
    /\ \E u \in Usernames : conn = Credentials(u)

NextCredentials ==
    \/ Mikrotik_connect_start
    \/ Mikrotik_disconnect_start
    \/ Finish
    \/ Mikrotik_connect
    \/ Base_connect
    \/ Base_disconnect
    \/ Mikrotik_sessionPreparation
    \/ Mikrotik_setBasePrompt
    \/ Mikrotik_disconnect

SpecCredentials == InitCredentials /\ [][NextCredentials]_vars

(***************************************************************************)
(* The plugins without a configuration mode: connect and sendConfig of     *)
(* MikroTik and Extreme EXOS.                                              *)
(***************************************************************************)

ImmediateVendors == {"mikrotik", "extreme"}

\* a caller sends a list of configuration commands
Immediate_sendConfig ==
    vendor \in ImmediateVendors /\ \E l \in ConfigLists : Start("sendConfig", l)

InitImmediate ==
    /\ \E v \in ImmediateVendors, fast \in BOOLEAN : NewSession(v, fast)
    /\ IdleOp
    /\ conn = NoConn

NextImmediate ==
    \/ connect
    \/ Immediate_sendConfig
    \/ Finish
    \/ Base_connect
    \/ Mikrotik_sessionPreparation
    \/ Mikrotik_setBasePrompt
    \/ Mikrotik_sendCommand
    \/ Mikrotik_sendConfig
    \/ Extreme_sessionPreparation
    \/ Extreme_setBasePrompt
    \/ Extreme_sendCommand
    \/ Extreme_sendConfig

SpecImmediate == InitImmediate /\ [][NextImmediate]_vars

(***************************************************************************)
(* exitConfigMode of HP ProCurve, Dell OS10 and EdgeSwitch against a       *)
(* device that is in configuration mode, at its top level or inside a      *)
(* context such as `vlan 100`.  `args` holds the commands that opened the  *)
(* contexts the device is in when exitConfigMode is called.                *)
(***************************************************************************)

ExitConfigVendors == {"procurve", "dell", "edgeswitch"}

\* the contexts of configuration mode a sendConfig may have opened
Contexts == {<<>>, <<"vlan 100">>, <<"interface 1">>}

\* the `exit` commands that have reached the device
ExitsWritten == Cardinality({i \in DOMAIN chan : chan[i] = Ev("w", "exit")})

\* the prompt of the device: each `exit` leaves one context, the last one
\* leaves configuration mode
DevicePrompt ==
    IF ExitsWritten > Len(args) THEN PrivilegedPrompt ELSE ConfigPrompt

\* what the session reads is the prompt of the device
AnswersAsDevice ==
    (Len(chan') > Len(chan) /\ chan'[Len(chan')].ev = "r")
        => chan'[Len(chan')].data = DevicePrompt

\* exitConfigMode is called with the device in configuration mode
ExitConfig_call ==
    /\ flags.inConfigMode
    /\ \E ctx \in Contexts : Start("exitConfigMode", ctx)

ExitConfig_exitConfigMode == Switch_exitConfigMode /\ AnswersAsDevice

InitExitConfig ==
    /\ \E v \in ExitConfigVendors, fast \in BOOLEAN :
          /\ vendor = v
          /\ fastMode = fast
    /\ isConnected = TRUE
    /\ currentChannel = TRUE
    /\ flags = [NoFlags EXCEPT !.inEnableMode = TRUE, !.inConfigMode = TRUE]
    /\ basePrompt = "h"
    /\ IdleOp
    /\ conn = NoConn

NextExitConfig ==
    \/ ExitConfig_call
    \/ ExitConfig_exitConfigMode
    \/ Finish

SpecExitConfig == InitExitConfig /\ [][NextExitConfig]_vars

(***************************************************************************)
(* The connection pool: a process-wide map from keys to entries, used by   *)
(* concurrent callers and an idle reaper under one lock.  `conn` holds the *)
(* pool: its entries, the holder of its lock, the position of every        *)
(* caller and of the reaper, and the sessions the reaper is closing.       *)
(***************************************************************************)

\* the concurrent callers of the pool
Callers == {"c1", "c2"}

\* the keys (host, port, username, device-type) the callers use
PoolKeys == {"k1", "k2"}

\* an entry idle for more than this many ticks is reaped (10 minutes)
IdleLimit == 1

\* a pool with the lock taken by nobody
LockFree_always == TRUE

\* the lock of the pool is free
LockFree == conn.lock = "none"

\* insert, acquire and release are open to every caller
MayCall(p, call) == conn.procs[p].pc = "idle" /\ (call = "release") = conn.procs[p].holds

\* PoolEntry: key, Session reference (the caller that opened it), last-used
\* time as ticks of idleness, in-use flag
PoolEntry(k, p) == [key |-> k, session |-> p, idle |-> 0, inUse |-> TRUE]

\* the live entries of a key
EntriesOf(k) == {e \in conn.entries : e.key = k}

\* the reference to an entry: an entry stays the same entry when its flag
\* and its last-used time change
Ref(e) == [key |-> e.key, session |-> e.session]

\* a caller that is not in a call and holds no entry
IdleCaller == [pc |-> "idle", key |-> "none", seen |-> {}, result |-> "none", holds |-> FALSE]

EmptyPool ==
    [kind |-> "pool", entries |-> {}, lock |-> "none",
     procs |-> [p \in Callers |-> IdleCaller], reaper |-> "idle", reaping |-> {}]

\* everything but the pool
poolFrame ==
    <<vendor, isConnected, currentChannel, fastMode, flags, basePrompt, closed, op, pc,
      stack, args, cmds, attempts, output, error, chan, par, ret>>

\* a caller starts insert(key, session), acquire(key) or release(entry)
Pool_call ==
    /\ \E p \in Callers, call \in {"insert", "acquire", "release"} :
          /\ MayCall(p, call)
          /\ \E k \in (IF call = "release" THEN {conn.procs[p].key} ELSE PoolKeys) :
                conn' = [conn EXCEPT !.procs[p].pc = call \o ".lock",
                                     !.procs[p].key = k,
                                     !.procs[p].seen = {},
                                     !.procs[p].result = "none"]
    /\ UNCHANGED poolFrame

\* a caller or the reaper takes the lock of the pool
Pool_lock ==
    /\ LockFree
    /\ \/ \E p \in Callers, call \in {"insert", "acquire", "release"} :
             /\ conn.procs[p].pc = call \o ".lock"
             /\ conn' = [conn EXCEPT !.lock = p, !.procs[p].pc = call \o ".look"]
       \/ /\ conn.reaper = "reap.lock"
          /\ conn' = [conn EXCEPT !.lock = "reaper", !.reaper = "reap.collect"]
    /\ UNCHANGED poolFrame

\* insert(key, session): reject if a live entry exists for the key, else
\* insert
insert ==
    /\ \E p \in Callers :
          \/ /\ conn.procs[p].pc = "insert.look"
             /\ conn' = [conn EXCEPT !.procs[p].seen = {Ref(e) : e \in EntriesOf(conn.procs[p].key)},
                                     !.procs[p].pc = "insert.put"]
          \/ /\ conn.procs[p].pc = "insert.put"
             /\ IF conn.procs[p].seen # {}
                THEN conn' = [conn EXCEPT !.procs[p].pc = "idle",
                                          !.procs[p].result = "rejected",
                                          !.procs[p].seen = {},
                                          !.lock = "none"]
                ELSE conn' = [conn EXCEPT !.entries = @ \cup {PoolEntry(conn.procs[p].key, p)},
                                          !.procs[p].pc = "idle",
                                          !.procs[p].result = "inserted",
                                          !.procs[p].holds = TRUE,
                                          !.lock = "none"]
    /\ UNCHANGED poolFrame

\* acquire(key): if a free live entry exists, flip its in-use flag and return
\* it, else return "miss"
acquire ==
    /\ \E p \in Callers :
          \/ /\ conn.procs[p].pc = "acquire.look"
             /\ conn' = [conn EXCEPT
                            !.procs[p].seen =
                                {Ref(e) : e \in {f \in EntriesOf(conn.procs[p].key) : ~f.inUse}},
                            !.procs[p].pc = "acquire.flip"]
          \/ /\ conn.procs[p].pc = "acquire.flip"
             /\ IF conn.procs[p].seen = {}
                THEN conn' = [conn EXCEPT !.procs[p].pc = "idle",
                                          !.procs[p].result = "miss",
                                          !.lock = "none"]
                ELSE \E r \in conn.procs[p].seen :
                        conn' = [conn EXCEPT
                                    !.entries = {IF Ref(e) = r
                                                 THEN [e EXCEPT !.inUse = TRUE, !.idle = 0]
                                                 ELSE e : e \in @},
                                    !.procs[p].pc = "idle",
                                    !.procs[p].result = "hit",
                                    !.procs[p].seen = {},
                                    !.procs[p].holds = TRUE,
                                    !.lock = "none"]
    /\ UNCHANGED poolFrame

\* release(entry): clear in-use, refresh the last-used time
release ==
    /\ \E p \in Callers :
          /\ conn.procs[p].pc = "release.look"
          /\ conn' = [conn EXCEPT
                         !.entries = {IF e.key = conn.procs[p].key /\ e.inUse
                                      THEN [e EXCEPT !.inUse = FALSE, !.idle = 0]
                                      ELSE e : e \in @},
                         !.procs[p].pc = "idle",
                         !.procs[p].result = "released",
                         !.procs[p].holds = FALSE,
                         !.lock = "none"]
    /\ UNCHANGED poolFrame

\* time passes for the entries nobody uses
Pool_tick ==
    /\ \E e \in conn.entries : ~e.inUse /\ e.idle <= IdleLimit
    /\ conn' = [conn EXCEPT
                   !.entries = {IF ~e.inUse /\ e.idle <= IdleLimit
                                THEN [e EXCEPT !.idle = @ + 1] ELSE e : e \in @}]
    /\ UNCHANGED poolFrame

\* reap(): on its timer the reaper takes the lock, collects the entries idle
\* for more than the limit, releases the lock, and closes their sessions
reap ==
    /\ \/ /\ conn.reaper = "idle"
          /\ conn' = [conn EXCEPT !.reaper = "reap.lock"]
       \/ /\ conn.reaper = "reap.collect"
          /\ LET expired == {e \in conn.entries : ~e.inUse /\ e.idle > IdleLimit}
             IN  conn' = [conn EXCEPT !.entries = @ \ expired,
                                      !.reaping = expired,
                                      !.reaper = "reap.close",
                                      !.lock = "none"]
       \/ /\ conn.reaper = "reap.close"
          /\ conn' = [conn EXCEPT !.reaping = {}, !.reaper = "idle"]
    /\ UNCHANGED poolFrame

InitPool ==
    /\ NewSession("generic", FALSE)
    /\ IdleOp
    /\ conn = EmptyPool

NextPool ==
    \/ Pool_call
    \/ Pool_lock
    \/ insert
    \/ acquire
    \/ release
    \/ Pool_tick
    \/ reap

SpecPool == InitPool /\ [][NextPool]_vars

(***************************************************************************)
(* A Palo Alto session under any sequence of connect, sendCommand,         *)
(* sendConfig, commitConfig, enterShellMode and returnToOperationalMode.   *)
(***************************************************************************)

\* the comments a caller gives to commitConfig: none, or one
CommitComments == {<<>>, <<"c1">>}

commitConfig == vendor = "paloalto" /\ \E c \in CommitComments : Start("commitConfig", c)

enterShellMode == isConnected /\ Start("enterShellMode", <<>>)

returnToOperationalMode == isConnected /\ Start("returnToOperationalMode", <<>>)

PaloAlto_sendCommand_call == vendor = "paloalto" /\ \E c \in Commands : Start("sendCommand", <<c>>)

PaloAlto_sendConfig_call == vendor = "paloalto" /\ \E l \in ConfigLists : Start("sendConfig", l)

InitPaloAlto ==
    /\ \E fast \in BOOLEAN : NewSession("paloalto", fast)
    /\ IdleOp
    /\ conn = NoConn

NextPaloAlto ==
    \/ connect
    \/ PaloAlto_sendCommand_call
    \/ PaloAlto_sendConfig_call
    \/ commitConfig
    \/ enterShellMode
    \/ returnToOperationalMode
    \/ Finish
    \/ Base_connect
    \/ PaloAlto_sessionPreparation
    \/ PaloAlto_parallelSetup
    \/ PaloAlto_enterOperationalMode
    \/ PaloAlto_setBasePrompt
    \/ PaloAlto_enterConfigMode
    \/ PaloAlto_exitConfigMode
    \/ PaloAlto_sendCommand
    \/ PaloAlto_sendConfig
    \/ PaloAlto_commitConfig
    \/ PaloAlto_enterShellMode
    \/ PaloAlto_returnToOperationalMode

SpecPaloAlto == InitPaloAlto /\ [][NextPaloAlto]_vars

(***************************************************************************)
(* A Versa FlexVNF session under connect, commit and saveConfig.           *)
(***************************************************************************)

\* the delays a caller gives: none, zero minutes, five minutes
ConfirmDelays == {<<>>, <<0>>, <<5>>}

\* the comments a caller gives: none, a plain one, one with a double quote
Comments == {"", "c1", "say \"x\""}

OptionInputs ==
    {CommitOptions(check, confirm, d, c, q) :
        check \in BOOLEAN, confirm \in BOOLEAN, d \in ConfirmDelays,
        c \in Comments, q \in BOOLEAN}

commit == vendor = "versa" /\ \E o \in OptionInputs : Start("commit", <<o>>)

Versa_saveConfig_call == vendor = "versa" /\ Start("saveConfig", <<>>)

InitVersa ==
    /\ \E fast \in BOOLEAN : NewSession("versa", fast)
    /\ IdleOp
    /\ conn = NoConn

NextVersa ==
    \/ connect
    \/ commit
    \/ Versa_saveConfig_call
    \/ Finish
    \/ Base_connect
    \/ Base_setBasePrompt
    \/ Versa_sessionPreparation
    \/ Versa_enterCliMode
    \/ Versa_parallelSetup
    \/ Versa_checkConfigMode
    \/ Versa_enterConfigMode
    \/ Versa_commit
    \/ Versa_saveConfig

SpecVersa == InitVersa /\ [][NextVersa]_vars
(***************************************************************************)
(* Properties.                                                             *)
(***************************************************************************)

\* the places of the channel traffic
Places == DOMAIN chan

\* a write was attempted at place i, whether or not it went through
IsWrite(i) == chan[i].ev \in {"w", "wx"}

\* a call raised at some place of the traffic
SomeIOFailed == \E i \in Places : chan[i].ev \in {"wx", "rx"}

\* the patterns that mark the answer to a command as an error
CommandErrorPatterns ==
    {"invalid command", "syntax error", "unknown command", "error:", "failed", "not found"}

MatchesCommandError(out) == \E p \in CommandErrorPatterns : IncludesIgnoreCase(out, p)

\* the vendors whose sendConfig works inside a configuration mode
ConfigModeVendors == {"versa", "huawei", "paloalto", "edgerouter"}

EnterCommand == IF vendor = "huawei" THEN "system-view" ELSE "configure"

ExitCommand ==
    CASE vendor = "huawei" -> "return"
      [] vendor = "versa" -> "exit configuration-mode"
      [] OTHER -> "exit"

\* the device answered the command that enters configuration mode with a
\* configuration-mode prompt at place i
EnteredAt(i) ==
    /\ i > 1
    /\ chan[i].ev = "r"
    /\ Includes(chan[i].data, "]")
    /\ chan[i - 1] = Ev("w", EnterCommand)

\* C1: sendCommand of MikroTik, Palo Alto and Extreme hands every failure to
\* its caller as a CommandResult and never raises: a call on a session that is
\* not connected or has no channel, and a call in which a write or a read
\* raised, returns success = false with an error message and the empty
\* output; success = true is returned only when the last two things on the
\* channel are the write of the command and the completed read of its answer.
C1_SendCommandAlwaysReturnsResult ==
    (vendor \in SendCommandVendors /\ op = "sendCommand" /\ pc = "done") =>
        /\ ret.kind = "returned"
        /\ (~isConnected \/ ~currentChannel) => (~ret.success /\ chan = <<>>)
        /\ SomeIOFailed => ~ret.success
        /\ ~ret.success => (ret.error # "" /\ ret.output = [sanitized |-> FALSE, text |-> ""])
        /\ ret.success =>
              /\ Len(chan) >= 2
              /\ chan[Len(chan) - 1] = Ev("w", args[1])
              /\ chan[Len(chan)].ev = "r"
              /\ ret.output = [sanitized |-> TRUE, text |-> chan[Len(chan)].data]

\* a sendCommand whose read of the answer raised has returned a failure
C1_Witness ==
    /\ vendor \in SendCommandVendors
    /\ op = "sendCommand"
    /\ pc = "done"
    /\ ret.kind = "returned"
    /\ ~ret.success
    /\ Len(chan) >= 2
    /\ chan[Len(chan) - 1] = Ev("w", args[1])
    /\ chan[Len(chan)].ev = "rx"

\* C2: in every vendor sendConfig, once the answer to a configuration command
\* matches a command-error pattern no later configuration command is written,
\* and the result reports success = false.
C2_StopsAtFirstCommandError ==
    (vendor \in SendConfigVendors /\ op = "sendConfig") =>
        \A i \in Places :
            (/\ i > 1
             /\ chan[i].ev = "r"
             /\ chan[i - 1].ev = "w"
             /\ chan[i - 1].data \in Commands
             /\ MatchesCommandError(chan[i].data)) =>
                /\ \A j \in Places : (j > i /\ IsWrite(j)) => chan[j].data \notin Commands
                /\ pc = "done" => (ret.kind = "returned" /\ ~ret.success)

\* C3: when a vendor sendConfig returns a failure after configuration mode
\* was entered, the command that leaves configuration mode was written
\* (or its write attempted) after the entry and before the return.
C3_FailureLeavesConfigMode ==
    (/\ vendor \in ConfigModeVendors
     /\ op = "sendConfig"
     /\ pc = "done"
     /\ ret.kind = "returned"
     /\ ~ret.success) =>
        \A i \in Places :
            EnteredAt(i) => \E j \in Places : j > i /\ IsWrite(j) /\ chan[j].data = ExitCommand

\* C4: on the commit-based vendors (EdgeRouter, Versa) a sendConfig that
\* returns success = true has written `commit` after the last configuration
\* command and before any command that leaves configuration mode.
C4_SuccessHasCommitted ==
    (/\ vendor \in {"edgerouter", "versa"}
     /\ op = "sendConfig"
     /\ pc = "done"
     /\ ret.kind = "returned"
     /\ ret.success) =>
        \E c \in Places :
            /\ chan[c] = Ev("w", "commit")
            /\ \A j \in Places : (IsWrite(j) /\ chan[j].data \in Commands) => j < c
            /\ \A j \in Places : (IsWrite(j) /\ chan[j].data = ExitCommand) => j > c

\* C5: the exchanges on a channel never interleave, the terminal-width and
\* paging steps of sessionPreparation included: a command is never written
\* while the answer to the command written before it has not been read.
C5_ExchangesNeverInterleave ==
    \A i \in Places : (i > 1 /\ chan[i].ev = "w") => chan[i - 1].ev # "w"

\* C6: disconnect of MikroTik, HP ProCurve and UniFi on a session that is not
\* connected returns at once: it writes nothing, changes no field of the
\* session, does not call the inherited disconnect and does not raise.
C6_DisconnectWhenNotConnectedIsNoop ==
    [][(vendor \in DisconnectVendors /\ pc = "disconnect" /\ ~isConnected) =>
          /\ pc' = "done"
          /\ ret' = [kind |-> "void"]
          /\ chan' = chan
          /\ closed' = closed
          /\ UNCHANGED sessionVars]_vars

\* a disconnect of a session that is not connected has returned
C6_Witness ==
    /\ vendor \in DisconnectVendors
    /\ op = "disconnect"
    /\ pc = "done"
    /\ ~isConnected
    /\ closed = 0
    /\ chan = <<>>
    /\ ret = [kind |-> "void"]

\* C7: disconnect of MikroTik, HP ProCurve and UniFi on a connected session
\* returns only through the inherited disconnect, and no failure of the
\* logout exchange makes it raise.
C7_ConnectedDisconnectClosesAndNeverRaises ==
    [][(vendor \in DisconnectVendors /\ op = "disconnect" /\ pc # "done" /\ pc' = "done") =>
          /\ ret' = [kind |-> "void"]
          /\ isConnected => (pc = "super.disconnect" /\ closed' = 1 /\ ~isConnected')]_vars

\* a disconnect whose logout exchange failed has gone through the inherited
\* disconnect and returned
C7_Witness ==
    /\ vendor \in DisconnectVendors
    /\ op = "disconnect"
    /\ pc = "done"
    /\ SomeIOFailed
    /\ closed = 1
    /\ ~isConnected
    /\ ret = [kind |-> "void"]

\* C8: createConnection lower-cases the device type and looks it up in the
\* table: a tag that is not one of the supported tags raises the
\* unsupported-device error that lists every supported tag and no session is
\* constructed; a supported tag yields a session of the class the table maps
\* it to.
C8_UnknownTagIsRejected ==
    conn.kind # "none" =>
        IF ToLowerCase(conn.tag) \notin SupportedTags
        THEN /\ conn.kind = "raised"
             /\ conn.error = "Unsupported device type"
             /\ conn.listed = SupportedKeys
             /\ conn.class = "none"
        ELSE /\ conn.kind = "returned"
             /\ conn.class = ClassOfKey[ToLowerCase(conn.tag)]

C10_BasePromptNonEmpty ==
    (vendor \in {"mikrotik", "paloalto", "extreme"} /\ op = "connect" /\ pc = "connected") =>
        basePrompt # ""


\* C11: on the enable-requiring plugins (Arista EOS, HP ProCurve, Aruba OS,
\* EdgeSwitch) a session whose inConfigMode flag is set has its inEnableMode
\* flag set, in every state any sequence of operations reaches.
C11_ConfigModeImpliesEnableMode ==
    vendor \in PrivilegedVendors => (flags.inConfigMode => flags.inEnableMode)

\* the commands that disable pagination or set the terminal width
TerminalSetupCommands ==
    {"screen-length 0 temporary", "screen-width 300", "set screen width 511",
     "set screen length 0", "set cli terminal width 511", "set cli pager off",
     "set cli screen-width 511", "set cli screen-length 0", "disable clipaging",
     "terminal width 511", "terminal width 512", "terminal length 0", "no page", "no paging"}

\* C12: with fastMode set, sessionPreparation writes no command that
\* disables pagination and no command that sets the terminal width.
C12_FastModeSkipsTerminalSetup ==
    (fastMode /\ op = "connect") =>
        \A i \in Places : IsWrite(i) => chan[i].data \notin TerminalSetupCommands

\* the command saveConfig or rebootDevice sends
ConfirmedCommand ==
    CASE vendor = "huawei" /\ op = "saveConfig" -> "save"
      [] vendor = "huawei" /\ op = "rebootDevice" -> "reboot"
      [] vendor = "edgeswitch" -> "write memory"
      [] vendor = "mikrotik" -> "/system reboot"
      [] OTHER -> "request restart system"

\* the chunk is the confirmation dialog of the vendor
IsConfirmation(s) ==
    CASE vendor = "huawei" -> containsYesNoPrompt(s)
      [] vendor = "edgeswitch" -> IncludesIgnoreCase(s, "are you sure")
      [] vendor = "mikrotik" -> IncludesIgnoreCase(s, "do you really want to reboot")
      [] OTHER -> Includes(s, "Reboot the system")

\* the places where the reply r was written, or its write attempted
RepliesAt(r) == {i \in Places : IsWrite(i) /\ chan[i].data = r}

\* the chunk read at place i is the first answer to the command
AnswersCommandAt(i) == i > 1 /\ chan[i].ev = "r" /\ chan[i - 1] = Ev("w", ConfirmedCommand)

\* C13: in saveConfig and rebootDevice of Huawei, saveConfig of EdgeSwitch
\* and rebootDevice of MikroTik, `y` is written at most once, only right
\* after the chunk that answered the command and matched the confirmation
\* pattern, and always when that chunk matched.
C13_ReplyExactlyWhenConfirmationMatches ==
    (vendor \in {"huawei", "edgeswitch", "mikrotik"} /\ op \in {"saveConfig", "rebootDevice"}) =>
        /\ Cardinality(RepliesAt("y")) <= 1
        /\ \A i \in RepliesAt("y") : AnswersCommandAt(i - 1) /\ IsConfirmation(chan[i - 1].data)
        /\ pc = "done" =>
              \A i \in Places :
                  (AnswersCommandAt(i) /\ IsConfirmation(chan[i].data)) => (i + 1) \in RepliesAt("y")

\* a MikroTik reboot whose confirmation was answered with `y`, and one whose
\* answer was no confirmation
C13_Witness ==
    /\ vendor = "mikrotik"
    /\ op = "rebootDevice"
    /\ pc = "done"
    /\ ret.kind = "returned"
    /\ ret.success
    /\ RepliesAt("y") = {3}
    /\ IsConfirmation(chan[2].data)

\* C14: rebootDevice of MikroTik and of Palo Alto returns success = true only
\* after the reply that accepts the reboot confirmation was written.
C14_RebootSuccessOnlyWhenAccepted ==
    (/\ vendor \in {"mikrotik", "paloalto"}
     /\ op = "rebootDevice"
     /\ pc = "done"
     /\ ret.kind = "returned"
     /\ ret.success) =>
        \E i \in Places : chan[i] = Ev("w", IF vendor = "mikrotik" THEN "y" ELSE "yes")

\* C15: for each vendor sanitizer, the text made of the command echo, a
\* newline, a body, a newline and the prompt is sanitized to exactly the
\* trimmed body, for every body and every prompt style of the vendor
C15_SanitizeReturnsTrimmedBody ==
    (vendor \in SanitizerVendors /\ op = "sendCommand" /\ pc = "done") =>
        \A body \in Bodies, prompt \in PromptsOf(vendor) :
            output = RawText(EchoOf(vendor, args), body, prompt) => ret.text = Trim(body)

\* the places of text where the base prompt is followed by a prompt id
PromptIds(text) ==
    {k \in Positions(text, basePrompt \o ".") :
        IsDigit(SubSeq(text, k + Len(basePrompt) + 1, k + Len(basePrompt) + 1))}

\* C16: the output Extreme EXOS sendCommand and sendConfig return holds no
\* prompt with its `.N` id, whatever the id, with or without the `*` prefix
C16_NoPromptIdInOutput ==
    (vendor = "extreme" /\ pc = "done") => PromptIds(ret.text) = {}

\* a sendConfig of two commands, the second answered under the prompt
\* `* h.12 #`, has returned the body of the answer
C16_Witness ==
    /\ vendor = "extreme"
    /\ pc = "done"
    /\ op = "sendConfig"
    /\ PromptIds(cmds[1]) # {}
    /\ Includes(cmds[2], "* h.12 #")
    /\ ret.text = "x\na#\nb"

\* text holds `[edit]`, `[edit path]`, `{master:N}`, `{backup:N}` or `admin@HOST`
HasContextMarker(text) ==
    \/ RemoveMarker(text, "[edit", "]") # text
    \/ RemoveMarker(text, "{master:", "}") # text
    \/ RemoveMarker(text, "{backup:", "}") # text
    \/ RemoveAdminTag(text) # text

\* C17: what Versa sendConfig and commit return holds no context marker,
\* whatever text the device sent
C17_NoContextMarkers ==
    (vendor = "versa" /\ pc = "done" /\ ret.kind = "text") => ~HasContextMarker(ret.text)

\* C18: with the base prompt learned from the prompt `<h>` by the rule of
\* setBasePrompt, Huawei's sanitizeOutput leaves neither `<h>` nor `[h]`
C18_HuaweiPromptsRemoved ==
    (vendor = "huawei" /\ pc = "done" /\ basePrompt = BasePromptOf("<h>", PromptTerminators)) =>
        ~Includes(ret.text, "<h>") /\ ~Includes(ret.text, "[h]")

\* the words of a lower-cased banner
WordsOf(out) == {BannerWords[i] : i \in {j \in 1..Len(BannerWords) : Includes(out, ToLowerCase(BannerWords[j]) \o " ")}}

\* the probe has answered and the guess is made
Detected == pc \in {"autoDetectDeviceType.finally", "done"} /\ output # ""

\* C19: a probe output that holds `cisco` together with `nexus` or `nx-os`
\* is detected as cisco_nxos, whatever other keywords it holds
C19_CiscoNexusIsNxos ==
    (Detected /\ Includes(output, "cisco") /\ (Includes(output, "nexus") \/ Includes(output, "nx-os")))
        => ret.value = "cisco_nxos"

\* a banner that names Cisco, Nexus and FortiOS has been detected as cisco_nxos
C19_Witness ==
    /\ pc = "done"
    /\ output = "cisco nexus fortios "
    /\ ret.value = "cisco_nxos"

\* the names of Cisco, Juniper and Ciena products among the banner words
OtherVendorWords == {"Cisco", "Nexus", "NX-OS", "ASA", "IOS-XR", "IOS-XE", "SG300", "JunOS", "Ciena"}

\* C20: a probe output that holds `fortinet`, `fortios` or `fortigate` and
\* names no Cisco, Juniper or Ciena product is detected as fortinet_fortios
C20_FortinetIsFortios ==
    (/\ Detected
     /\ Includes(output, "fortinet") \/ Includes(output, "fortios") \/ Includes(output, "fortigate")
     /\ WordsOf(output) \cap OtherVendorWords = {})
        => ret.value = "fortinet_fortios"

(***************************************************************************)
(* Claims C21 to C30.                                                      *)
(***************************************************************************)

\* the names the detection ruleset looks for
RulesetWords ==
    {"cisco", "ios", "nx-os", "nexus", "asa", "ios-xr", "iosxr", "ios-xe", "sg300",
     "small business", "junos", "juniper", "srx", "ciena", "saos", "fortinet", "fortios",
     "fortigate", "palo alto", "pan-os", "panos", "paloalto", "ericsson", "ipos",
     "minilink", "linux", "ubuntu", "centos", "redhat", "debian", "bash", "huawei", "vrp",
     "versatile routing platform", "ne8000", "arista", "procurve", "hp switch", "aruba",
     "ubiquiti", "ubnt", "mikrotik", "routeros", "extremexos", "extreme networks", "exos",
     "dell", "versa", "flexvnf"}

\* the probe output holds none of the names of the ruleset
NoRulesetWord == \A k \in RulesetWords : ~Includes(output, k)

\* C21 as stated: a probe output that holds none of the keywords of the
\* detection ruleset, such as the bare prompt of a shell, is detected as null
C21_NoKeywordIsNull ==
    (Detected /\ NoRulesetWord) => ret.value = "null"

\* C21 amended: a probe output that holds none of the keywords of the
\* detection ruleset and neither `$` nor `~` is detected as null
C21_NoKeywordNoShellCharIsNull ==
    (Detected /\ NoRulesetWord /\ ~Includes(output, "$") /\ ~Includes(output, "~"))
        => ret.value = "null"

\* the bare prompt of an unknown device has been detected as null
C21_Witness ==
    /\ pc = "done"
    /\ output = "h> "
    /\ ret.value = "null"

\* C22: a call of autoDetectDeviceType never disconnects its probe session
\* twice, and has disconnected it once when it completes, whether a tag was
\* detected, nothing matched, or connect or the probe command raised
C22_ProbeSessionClosedOnce ==
    /\ closed <= 1
    /\ (op = "autoDetectDeviceType" /\ pc = "done") => (closed = 1 /\ ~isConnected)

\* connect raised, and the call completed with the probe session disconnected
C22_Witness ==
    /\ op = "autoDetectDeviceType"
    /\ pc = "done"
    /\ error = "connect"
    /\ ret.value = "null"
    /\ closed = 1

\* the inherited connect is about to open the transport with the
\* credentials of the session
PresentsCredentials == op = "Mikrotik.connect" /\ pc = "connect"

\* C23: every connect of a MikroTik session created with the name u presents
\* u followed by one `+ct511w4098h`, also when it is not the first connect,
\* and credentials.username is u again when connect has returned
C23_ConnectPresentsModifiedNameOnce ==
    /\ conn.originalUsername \in Usernames
    /\ PresentsCredentials => conn.username = conn.originalUsername \o "+ct511w4098h"
    /\ (op = "Mikrotik.connect" /\ pc = "done" /\ ret.kind # "raised")
            => conn.username = conn.originalUsername

\* a session that was connected before connects again and presents the
\* name modified once
C23_Witness ==
    /\ PresentsCredentials
    /\ basePrompt # ""
    /\ conn = [kind |-> "credentials", username |-> "admin+ct511w4098h",
               originalUsername |-> "admin"]

\* C30: when connect of a MikroTik session has raised, credentials.username
\* is the name the caller supplied
C30_FailedConnectRestoresName ==
    (op = "Mikrotik.connect" /\ pc = "done" /\ ret.kind = "raised")
        => conn.username = conn.originalUsername

\* disconnect of a UniFi session hands over to the inherited disconnect,
\* which closes the SSH client
Unifi_ClosesSsh ==
    /\ vendor = "unifi"
    /\ op = "disconnect"
    /\ pc # "super.disconnect"
    /\ pc' = "super.disconnect"

\* C24: every disconnect of a connected UniFi session, which is inside the
\* telnet session of its switch CLI, has written the `exit` that leaves the
\* telnet session when it closes the SSH client, in user, enable and
\* configuration mode: the SSH client is closed only from the write of that
\* `exit` (the channel refused it) or from the read that follows it, unless
\* a write or a read raised earlier in the call
C24_TelnetExitBeforeSshClose ==
    [][(Unifi_ClosesSsh /\ flags.inTelnetSession /\ ~SomeIOFailed)
            => pc \in {"exitSwitchCli.exit", "exitSwitchCli.read"}]_vars

\* C26: when sendConfig of Versa, Huawei, Palo Alto or EdgeRouter returns
\* success = true, the session has left configuration mode: the command that
\* leaves it was written after every entry, and inConfigMode is false
C26_SuccessHasLeftConfigMode ==
    (/\ vendor \in ConfigModeVendors
     /\ op = "sendConfig"
     /\ pc = "done"
     /\ ret.kind = "returned"
     /\ ret.success) =>
        /\ ~flags.inConfigMode
        /\ \A i \in Places :
              EnteredAt(i) => \E j \in Places : j > i /\ chan[j] = Ev("w", ExitCommand)

\* a sendCommand or sendConfig is running on a session that is not connected
CalledNotConnected == op \in {"sendCommand", "sendConfig"} /\ ~isConnected

RECURSIVE WrittenCommands(_)
\* what the writes of a stretch of channel traffic carried, in their order,
\* a write the channel refused included and the bare returns that probe the
\* prompt left out
WrittenCommands(traffic) ==
    IF traffic = <<>> THEN <<>>
    ELSE IF Head(traffic).ev \in {"w", "wx"} /\ Head(traffic).data # returnChar
    THEN <<Head(traffic).data>> \o WrittenCommands(Tail(traffic))
    ELSE WrittenCommands(Tail(traffic))

\* the commands that enter and leave a configuration mode
ConfigModeCommands ==
    {"configure", "configure terminal", "system-view", "exit", "end", "return", "quit",
     "exit configuration-mode", "commit"}

\* the sendCommand of some command has returned a failure: the session was
\* not connected, or a write or a read of it raised
SendCommandFailed == SomeIOFailed \/ ~isConnected \/ ~currentChannel

\* C28: sendConfig of MikroTik and Extreme writes the commands of its list
\* one at a time in the order of the list and no command of a configuration
\* mode, leaves inConfigMode alone, writes nothing after the first sendCommand
\* that failed, and returns success = false exactly when one failed
C28_ImmediateSendConfig ==
    op = "sendConfig" =>
        /\ \E n \in 0..Len(args) : WrittenCommands(chan) = SubSeq(args, 1, n)
        /\ \A i \in Places : IsWrite(i) => chan[i].data \notin ConfigModeCommands
        /\ ~flags.inConfigMode
        /\ \A i \in Places : chan[i].ev \in {"wx", "rx"} => i = Len(chan)
        /\ pc = "done" =>
              /\ ret.kind = "returned"
              /\ ret.success = ~SendCommandFailed
              /\ ret.success => WrittenCommands(chan) = args

\* an Extreme sendConfig of two commands has returned a failure after the
\* read of its first command raised, with the second command never written
C28_Witness ==
    /\ vendor = "extreme"
    /\ op = "sendConfig"
    /\ pc = "done"
    /\ Len(args) = 2
    /\ WrittenCommands(chan) = <<args[1]>>
    /\ chan[Len(chan)].ev = "rx"
    /\ ~ret.success

\* C29: exitConfigMode of HP ProCurve, Dell OS10 and EdgeSwitch, called with
\* the device in configuration mode at the top level or inside a context
\* such as `vlan 100`, returns without raising with the device at its
\* privileged prompt and inConfigMode false (a channel that fails set aside)
C29_ExitConfigModeLeavesEveryContext ==
    (op = "exitConfigMode" /\ pc = "done" /\ ~SomeIOFailed) =>
        /\ ret.kind # "raised"
        /\ ~flags.inConfigMode
        /\ DevicePrompt = PrivilegedPrompt

\* the insert of caller p for the key k was accepted, and p has made no
\* other call since
InsertedBy(p, k) ==
    /\ conn.procs[p].pc = "idle"
    /\ conn.procs[p].result = "inserted"
    /\ conn.procs[p].key = k

\* C25: whatever the interleaving of insert, acquire, release and reap, the
\* pool holds at most one live entry for a key; of the inserts of concurrent
\* callers for one key one is accepted, and the key has one entry then
C25_PoolKeysUnique ==
    \A k \in PoolKeys :
        /\ Cardinality(EntriesOf(k)) <= 1
        /\ \A p \in Callers : InsertedBy(p, k) =>
              /\ Cardinality(EntriesOf(k)) = 1
              /\ \A q \in Callers \ {p} : ~InsertedBy(q, k)

\* both callers have called insert for the key k1: one was accepted and the
\* other rejected, and the key has the entry of the first
C25_Witness ==
    /\ conn.procs["c1"] = [pc |-> "idle", key |-> "k1", seen |-> {}, result |-> "inserted",
                           holds |-> TRUE]
    /\ conn.procs["c2"] = [pc |-> "idle", key |-> "k1", seen |-> {}, result |-> "rejected",
                           holds |-> FALSE]
    /\ EntriesOf("k1") = {PoolEntry("k1", "c1")}

(***************************************************************************)
(* Claims C31 to C39.                                                      *)
(***************************************************************************)

\* C31: commitConfig of Palo Alto returns success = true only when what the
\* device printed reports the configuration as committed; a commit the device
\* rejected before its prompt returns success = false
C31_CommitSuccessOnlyWhenCommitted ==
    (vendor = "paloalto" /\ op = "commitConfig" /\ pc = "done" /\ ret.kind = "returned"
     /\ ret.success)
        => Includes(output, "Configuration committed")

\* C32: `configure` has reached the device of a Palo Alto session only with
\* inOperationalMode true: when `cli` brought no CLI prompt, enterConfigMode
\* fails with `configure` unwritten
C32_ConfigureOnlyInOperationalMode ==
    (vendor = "paloalto" /\ pc = "enterConfigMode.read") => flags.inOperationalMode

\* the mode flags of a Palo Alto session that are true
PaloAlto_ModesOn ==
    {f \in {"inShellMode", "inOperationalMode", "inConfigMode"} : flags[f]}

\* C33: at most one of inShellMode, inOperationalMode and inConfigMode is
\* true in a Palo Alto session
C33_AtMostOneMode ==
    vendor = "paloalto" => Cardinality(PaloAlto_ModesOn) <= 1

\* the prompt ends in `>` or `%`: the device is at its CLI
AtCliPrompt(out) ==
    LET t == Trim(out)
    IN  Len(t) > 0 /\ SubSeq(t, Len(t), Len(t)) \in {">", "%"}

\* the places where `cli` was written
CliWrites == {i \in Places : IsWrite(i) /\ chan[i].data = "cli"}

\* C34: during Versa sessionPreparation `cli` is written at most once, and
\* never when the prompt the probe read ends in `>` or `%`
C34_CliOnlyAtBootShell ==
    (vendor = "versa" /\ op = "connect")
        => /\ Cardinality(CliWrites) <= 1
           /\ \A i \in CliWrites : i > 1 /\ ~AtCliPrompt(chan[i - 1].data)

\* the option combinations commit is documented to refuse
InvalidOptions(o) ==
    \/ o.check /\ (o.confirm \/ o.confirmDelay # <<>> \/ o.comment # "")
    \/ o.confirmDelay # <<>> /\ ~o.confirm
    \/ Includes(o.comment, "\"")

\* C35: a Versa commit called with an invalid option combination raises
\* before anything is written to the channel
C35_InvalidCommitRaisesBeforeWriting ==
    (vendor = "versa" /\ op = "commit" /\ InvalidOptions(Head(args)))
        => /\ chan = <<>>
           /\ pc \in {"commit", "done"}
           /\ pc = "done" => ret.kind = "raised"

\* C36: during HP ProCurve disconnect whatever is written in reply to output
\* that asks to save is `n`, and `y` is written only in reply to output that
\* asks to log out
C36_SavePromptNeverAnsweredYes ==
    (vendor = "procurve" /\ op = "disconnect")
        => /\ \A i \in Places :
                (chan[i].ev = "r" /\ AsksToSave(chan[i].data) /\ i + 1 \in Places /\ IsWrite(i + 1))
                    => chan[i + 1].data = "n"
           /\ \A i \in Places :
                (IsWrite(i) /\ chan[i].data = "y")
                    => i > 1 /\ chan[i - 1].ev = "r" /\ AsksToLogOut(chan[i - 1].data)

\* a disconnect that was asked to save, answered n, was asked to log out and
\* answered y
C36_Witness ==
    /\ vendor = "procurve"
    /\ op = "disconnect"
    /\ \E i, j \in Places :
          /\ i + 1 < j
          /\ chan[i].ev = "r" /\ AsksToSave(chan[i].data)
          /\ chan[i + 1] = Ev("w", "n")
          /\ chan[j - 1].ev = "r" /\ AsksToLogOut(chan[j - 1].data)
          /\ chan[j] = Ev("w", "y")

\* C37: saveConfig never raises: when it ends, the caller holds a
\* CommandResult, with success = false and an error message after a failure
C37_SaveConfigNeverRaises ==
    (op = "saveConfig" /\ pc = "done")
        => /\ ret.kind = "returned"
           /\ SomeIOFailed => (~ret.success /\ ret.error # "")

\* C38: createConnection returns a session for a tag exactly when
\* isDeviceTypeSupported holds for it, which is exactly when its lower-cased
\* form is listed by getSupportedDeviceTypes; every tag getDeviceTypeOptions
\* offers is accepted
C38_SupportedViewsAgree ==
    conn # NoConn
        => /\ conn.kind = "returned" <=> isDeviceTypeSupported(conn.tag)
           /\ isDeviceTypeSupported(conn.tag) <=> ToLowerCase(conn.tag) \in SupportedTags
           /\ conn.tag \in OfferedTags => conn.kind = "returned"

\* C39: every tag autoDetectDeviceType returns is a key of the dispatch
\* table, and ConnectHandlerWithAutoDetect either raises 'Could not
\* auto-detect device type' or returns a session of the detected type
C39_DetectedTypeIsDispatched ==
    (op = "autoDetectDeviceType" /\ ret # NoRet)
        => /\ ret.value \in SupportedTags \cup {"null"}
           /\ conn # NoConn
                => IF ret.value = "null"
                   THEN conn.kind = "raised" /\ conn.error = "Could not auto-detect device type"
                   ELSE conn.kind = "returned" /\ conn.class = ClassOfKey[ret.value]

\* a session created for a type one of the last tests detects
C39_Witness ==
    /\ op = "autoDetectDeviceType"
    /\ output = "versa flexvnf h> "
    /\ ret # NoRet
    /\ ret.value = "versa_flexvnf"
    /\ conn # NoConn
    /\ conn.kind = "returned"
    /\ conn.class = "VersaFlexVNFConnection"
====
